---- MODULE Spec2Model ----
(***************************************************************************)
(* Customer-support ticketing demo (Dackohn/Creational-Patterns).          *)
(*                                                                         *)
(* The repository holds the program twice: the flat implementation         *)
(* (CustomerManagement.hpp, TicketManagement.hpp, NotificationChannels.hpp)*)
(* and the layered one (domain/...).  Both are modelled, over the same     *)
(* variables; impl says which one a behaviour runs.  Definitions of the    *)
(* layered implementation are named Domain_...                             *)
(*                                                                         *)
(* Strings.  A std::string is a finite sequence of symbols.  A string      *)
(* literal of the source is one symbol, the empty string is <<>>, the      *)
(* result of std::to_string is one symbol per decimal digit, and           *)
(* operator+ is \o.  Two strings are equal iff their symbol sequences are. *)
(***************************************************************************)
EXTENDS Integers, Sequences, FiniteSets

VARIABLES
    impl,             \* which of the two implementations runs: "flat" or "layered"
    customers,        \* InMemoryCustomerRepository::customers  (id -> Customer)
    tickets,          \* InMemoryTicketRepository::tickets      (id -> Ticket)
    customerCounter,  \* CustomerService::customerCounter, one per service object
    ticketCounter,    \* TicketService::ticketCounter, one per service object
    channels,         \* NotificationService::channels
    last,             \* the most recent call: operation, arguments, return value
    out,              \* what the most recent call emitted, in order
    custReturned,     \* history: per CustomerService, the IDs it returned
    tktReturned,      \* history: per TicketService, the non-empty IDs it returned
    repoHist,         \* history: the records passed to save() by direct repository calls
    held              \* the shared_ptr<Ticket> values a caller has kept, in order

vars == <<impl, customers, tickets, customerCounter, ticketCounter, channels,
          last, out, custReturned, tktReturned, repoHist, held>>

(***************************************************************************)
(* Bounds of the model.                                                    *)
(***************************************************************************)
MaxCustomers == 2
MaxTickets == 2
FewCustomers == 1
FewTickets == 1
MaxServices == 2
MaxRepoSaves == 3
MaxOrphans == 1
MaxChannels == 2

(***************************************************************************)
(* Program constants.                                                      *)
(***************************************************************************)
CustomerCounterStart == 1000
TicketCounterStart == 1000

(***************************************************************************)
(* Strings.                                                                *)
(***************************************************************************)
Lit(s) == <<s>>

EmptyString == <<>>

Digits == <<"0", "1", "2", "3", "4", "5", "6", "7", "8", "9">>

\* std::to_string(int), for n >= 0
RECURSIVE to_string(_)
to_string(n) ==
    IF n < 10 THEN <<Digits[n + 1]>>
    ELSE to_string(n \div 10) \o <<Digits[(n % 10) + 1]>>

(***************************************************************************)
(* Enumerations.                                                           *)
(***************************************************************************)
CustomerType == {"REGULAR", "PREMIUM", "VIP"}

(***************************************************************************)
(* Customer and CustomerBuilder.                                           *)
(***************************************************************************)
Customer(customerId, customerName, customerEmail, customerPhone, customerType) ==
    [id |-> customerId, name |-> customerName, email |-> customerEmail,
     phone |-> customerPhone, type |-> customerType]

CustomerBuilder ==
    [id |-> EmptyString, name |-> EmptyString, email |-> EmptyString,
     phone |-> EmptyString, type |-> "REGULAR"]

CustomerBuilder_withId(b, customerId) == [b EXCEPT !.id = customerId]
CustomerBuilder_withName(b, customerName) == [b EXCEPT !.name = customerName]
CustomerBuilder_withEmail(b, customerEmail) == [b EXCEPT !.email = customerEmail]
CustomerBuilder_withPhone(b, customerPhone) == [b EXCEPT !.phone = customerPhone]
CustomerBuilder_withType(b, customerType) == [b EXCEPT !.type = customerType]

CustomerBuilder_build(b) == Customer(b.id, b.name, b.email, b.phone, b.type)

(***************************************************************************)
(* Repositories: std::map<std::string, std::shared_ptr<T>>.  A map is a    *)
(* function whose domain is the set of stored keys.                        *)
(***************************************************************************)
\* Mutant of Repo_save: map.insert(), which keeps the record already stored
Repo_save_insertOnly(map, record) ==
    [k \in (DOMAIN map) \cup {record.id} |-> IF k \in DOMAIN map THEN map[k] ELSE record]

\* Mutant of Repo_save: the map is assigned, not the entry
Repo_save_dropsOthers(map, record) == [k \in {record.id} |-> record]

\* map[key] = std::make_shared<T>(record)
Repo_save(map, record) ==
    [k \in (DOMAIN map) \cup {record.id} |-> IF k = record.id THEN record ELSE map[k]]

NullPtr == [null |-> TRUE]

\* map.find(id); nullptr when it == end()
Repo_findById(map, id) == IF id \in DOMAIN map THEN map[id] ELSE NullPtr

\* The code of the first character of a symbol that occurs in a key.
CharCode(sym) ==
    CASE sym = "0" -> 48 [] sym = "1" -> 49 [] sym = "2" -> 50 [] sym = "3" -> 51
      [] sym = "4" -> 52 [] sym = "5" -> 53 [] sym = "6" -> 54 [] sym = "7" -> 55
      [] sym = "8" -> 56 [] sym = "9" -> 57
      [] sym = "CUST-" -> 67
      [] sym = "TKT-" -> 84

\* std::less<std::string>: lexicographic comparison
RECURSIVE StringLess(_, _)
StringLess(a, b) ==
    IF b = <<>> THEN FALSE
    ELSE IF a = <<>> THEN TRUE
    ELSE IF Head(a) = Head(b) THEN StringLess(Tail(a), Tail(b))
    ELSE CharCode(Head(a)) < CharCode(Head(b))

\* Mutant of FindAllFrom: the map is ordered by std::greater
RECURSIVE FindAllFrom_descending(_, _)
FindAllFrom_descending(map, keys) ==
    IF keys = {} THEN <<>>
    ELSE LET first == CHOOSE k \in keys : \A o \in keys \ {k} : StringLess(o, k)
         IN  <<map[first]>> \o FindAllFrom_descending(map, keys \ {first})

\* for (const auto& pair : map) result.push_back(pair.second): in key order
RECURSIVE FindAllFrom(_, _)
FindAllFrom(map, keys) ==
    IF keys = {} THEN <<>>
    ELSE LET first == CHOOSE k \in keys : \A o \in keys \ {k} : StringLess(k, o)
         IN  <<map[first]>> \o FindAllFrom(map, keys \ {first})

Repo_findAll(map) == FindAllFrom(map, DOMAIN map)

(***************************************************************************)
(* CustomerFactory.                                                        *)
(***************************************************************************)
\* Mutant of CustomerFactory_getTypePrefix: the two cases exchanged
CustomerFactory_getTypePrefix_swapped(type) ==
    CASE type = "PREMIUM" -> Lit("[VIP] ")
      [] type = "VIP" -> Lit("[PREMIUM] ")
      [] OTHER -> EmptyString

CustomerFactory_getTypePrefix(type) ==
    CASE type = "PREMIUM" -> Lit("[PREMIUM] ")
      [] type = "VIP" -> Lit("[VIP] ")
      [] OTHER -> EmptyString

CustomerFactory_getTypeName(type) ==
    CASE type = "PREMIUM" -> Lit("Premium")
      [] type = "VIP" -> Lit("VIP")
      [] OTHER -> Lit("Regular")

(***************************************************************************)
(* Ticket enumerations, Ticket and TicketBuilder.                          *)
(***************************************************************************)
TicketStatus == {"OPEN", "IN_PROGRESS", "RESOLVED", "CLOSED"}

Priority == {"LOW", "MEDIUM", "HIGH", "CRITICAL"}

TicketCategory == {"TECHNICAL", "BILLING", "GENERAL", "COMPLAINT", "FEATURE_REQUEST"}

\* Mutant of Ticket: the status is initialised from the wrong enumerator
Ticket_notOpen(ticketId, custId, desc, prio, cat, now) ==
    [id |-> ticketId, customerId |-> custId, description |-> desc,
     status |-> "IN_PROGRESS", priority |-> prio, createdAt |-> now,
     assignedTo |-> EmptyString, category |-> cat, tags |-> <<>>]

\* Ticket::Ticket; now is the value std::time(nullptr) returns
Ticket(ticketId, custId, desc, prio, cat, now) ==
    [id |-> ticketId, customerId |-> custId, description |-> desc,
     status |-> "OPEN", priority |-> prio, createdAt |-> now,
     assignedTo |-> EmptyString, category |-> cat, tags |-> <<>>]

\* Mutant of Ticket_setStatus: the tags are cleared with the change
Ticket_setStatus_dropsTags(t, newStatus) ==
    [t EXCEPT !.status = newStatus, !.tags = <<>>]

\* Mutant of Ticket_setStatus: a closed ticket is not reopened
Ticket_setStatus_noReopen(t, newStatus) ==
    IF t.status = "CLOSED" THEN t ELSE [t EXCEPT !.status = newStatus]

Ticket_setStatus(t, newStatus) == [t EXCEPT !.status = newStatus]
Ticket_setAssignedTo(t, agent) == [t EXCEPT !.assignedTo = agent]
Ticket_addTag(t, tag) == [t EXCEPT !.tags = Append(@, tag)]

(***************************************************************************)
(* A shared_ptr<Ticket> that a caller keeps.  obtained is the Ticket as it  *)
(* was when the pointer was handed out, seen is the Ticket read through the *)
(* pointer now, and stored says that the pointer still points at the       *)
(* object that the repository's map holds under id.                        *)
(***************************************************************************)
\* findById returns it->second, findAll pushes pair.second: the pointer of
\* the map, not a copy of the object
Handle(ticket) ==
    [id |-> ticket.id, obtained |-> ticket, seen |-> ticket, stored |-> TRUE]

\* Mutant of AfterSetStatus: the status is set on a copy of the stored object
AfterSetStatus_onCopy(handles, ticketId, newStatus) == handles

\* ticket->setStatus(newStatus) on the pointer findById returned: the stored
\* object changes, and with it what every pointer to it shows
AfterSetStatus(handles, ticketId, newStatus) ==
    [i \in 1..Len(handles) |->
        IF handles[i].stored /\ handles[i].id = ticketId
        THEN [handles[i] EXCEPT !.seen = Ticket_setStatus(@, newStatus)]
        ELSE handles[i]]

\* tickets[id] = std::make_shared<Ticket>(ticket): the map holds a new object,
\* the pointers handed out before keep the old one alive
AfterSave(handles, ticketId) ==
    [i \in 1..Len(handles) |->
        IF handles[i].id = ticketId THEN [handles[i] EXCEPT !.stored = FALSE]
        ELSE handles[i]]

TicketBuilder ==
    [id |-> EmptyString, customerId |-> EmptyString, description |-> EmptyString,
     priority |-> "MEDIUM", assignedTo |-> EmptyString, category |-> "GENERAL",
     tags |-> <<>>]

TicketBuilder_withId(b, ticketId) == [b EXCEPT !.id = ticketId]
TicketBuilder_withCustomerId(b, custId) == [b EXCEPT !.customerId = custId]
TicketBuilder_withDescription(b, desc) == [b EXCEPT !.description = desc]
TicketBuilder_withPriority(b, prio) == [b EXCEPT !.priority = prio]
TicketBuilder_withAssignedTo(b, agent) == [b EXCEPT !.assignedTo = agent]
TicketBuilder_withCategory(b, cat) == [b EXCEPT !.category = cat]
TicketBuilder_addTag(b, tag) == [b EXCEPT !.tags = Append(@, tag)]

\* for (const auto& tag : tags) ticket->addTag(tag), from position i on
RECURSIVE AddTagsFrom(_, _, _)
AddTagsFrom(t, tags, i) ==
    IF i > Len(tags) THEN t
    ELSE AddTagsFrom(Ticket_addTag(t, tags[i]), tags, i + 1)

\* Mutant of TicketBuilder_build: the loop over the tags starts one too late
TicketBuilder_build_skipsFirstTag(b, now) ==
    LET ticket == Ticket(b.id, b.customerId, b.description, b.priority, b.category, now)
        assigned == IF b.assignedTo # EmptyString
                    THEN Ticket_setAssignedTo(ticket, b.assignedTo)
                    ELSE ticket
    IN  AddTagsFrom(assigned, b.tags, 2)

TicketBuilder_build(b, now) ==
    LET ticket == Ticket(b.id, b.customerId, b.description, b.priority, b.category, now)
        assigned == IF b.assignedTo # EmptyString
                    THEN Ticket_setAssignedTo(ticket, b.assignedTo)
                    ELSE ticket
    IN  AddTagsFrom(assigned, b.tags, 1)

(***************************************************************************)
(* TicketFactory.                                                          *)
(***************************************************************************)
TicketFactory_getCategoryName(category) ==
    CASE category = "TECHNICAL" -> Lit("Technical")
      [] category = "BILLING" -> Lit("Billing")
      [] category = "COMPLAINT" -> Lit("Complaint")
      [] category = "FEATURE_REQUEST" -> Lit("Feature Request")
      [] OTHER -> Lit("General")

TicketFactory_getPriorityName(priority) ==
    CASE priority = "LOW" -> Lit("Low")
      [] priority = "MEDIUM" -> Lit("Medium")
      [] priority = "HIGH" -> Lit("High")
      [] priority = "CRITICAL" -> Lit("Critical")
      [] OTHER -> Lit("Unknown")

TicketFactory_getStatusName(status) ==
    CASE status = "OPEN" -> Lit("Open")
      [] status = "IN_PROGRESS" -> Lit("In Progress")
      [] status = "RESOLVED" -> Lit("Resolved")
      [] status = "CLOSED" -> Lit("Closed")
      [] OTHER -> Lit("Unknown")

\* Mutant of TicketFactory_getAutoAssignedAgent: the two agents exchanged
TicketFactory_getAutoAssignedAgent_swapped(priority) ==
    CASE priority = "CRITICAL" -> Lit("Agent-002")
      [] priority = "HIGH" -> Lit("Senior-Agent-001")
      [] OTHER -> EmptyString

TicketFactory_getAutoAssignedAgent(priority) ==
    CASE priority = "CRITICAL" -> Lit("Senior-Agent-001")
      [] priority = "HIGH" -> Lit("Agent-002")
      [] OTHER -> EmptyString

TicketFactory_getDefaultTags(category) ==
    LET tags == <<Lit("new")>>
    IN  CASE category = "TECHNICAL" -> Append(tags, Lit("technical-support"))
          [] category = "BILLING" -> Append(tags, Lit("finance"))
          [] category = "COMPLAINT" -> Append(tags, Lit("urgent"))
          [] category = "FEATURE_REQUEST" -> Append(tags, Lit("product"))
          [] OTHER -> tags

(***************************************************************************)
(* Logger and notification channels.  A call emits events: a log line      *)
(* (ILogger::log) or a send on a channel (INotificationChannel::send).     *)
(***************************************************************************)
LogEvent(message) == [kind |-> "log", text |-> message]

SendEvent(channel, recipient, message, ok) ==
    [kind |-> "send", channel |-> channel, recipient |-> recipient,
     text |-> message, ok |-> ok]

\* a call of NotificationService::notify
NotifyEvent(recipient, message) ==
    [kind |-> "notify", recipient |-> recipient, text |-> message]

\* ticketRepo.save(*ticket) has stored the record
SaveEvent(ticket) == [kind |-> "save", record |-> ticket]

\* EmailNotification, SMSNotification, PushNotification
ConcreteChannels == {"Email", "SMS", "Push"}

\* any other implementation of INotificationChannel
OtherChannels == {"Other"}

\* getChannelName()
Channel_getChannelName(channel) == Lit(channel)

\* send(): the values the call may return
Channel_sendResults(channel) ==
    IF channel \in ConcreteChannels THEN {TRUE} ELSE BOOLEAN

\* the results the sends of one notify() may have, one per channel
SendResults(chs) ==
    {r \in [1..Len(chs) -> BOOLEAN] : \A i \in 1..Len(chs) : r[i] \in Channel_sendResults(chs[i])}

\* the logger handed to NotificationService::getInstance is not null
NotificationService_hasLogger == TRUE

\* Mutant of NotifyFrom: the loop ends at the first send that fails
RECURSIVE NotifyFrom_shortCircuit(_, _, _, _, _)
NotifyFrom_shortCircuit(chs, i, recipient, message, results) ==
    IF i > Len(chs) THEN <<>>
    ELSE <<SendEvent(chs[i], recipient, message, results[i])>>
         \o (IF results[i]
             THEN <<LogEvent(Lit("Notification sent via ") \o Channel_getChannelName(chs[i])
                             \o Lit(" to ") \o recipient)>>
                  \o NotifyFrom_shortCircuit(chs, i + 1, recipient, message, results)
             ELSE <<>>)

\* Mutant of NotifyFrom: the log line is written whatever send returned
RECURSIVE NotifyFrom_logsAlways(_, _, _, _, _)
NotifyFrom_logsAlways(chs, i, recipient, message, results) ==
    IF i > Len(chs) THEN <<>>
    ELSE <<SendEvent(chs[i], recipient, message, results[i])>>
         \o <<LogEvent(Lit("Notification sent via ") \o Channel_getChannelName(chs[i])
                       \o Lit(" to ") \o recipient)>>
         \o NotifyFrom_logsAlways(chs, i + 1, recipient, message, results)

\* NotificationService::notify, from channel i on; results[i] is what send returns
RECURSIVE NotifyFrom(_, _, _, _, _)
NotifyFrom(chs, i, recipient, message, results) ==
    IF i > Len(chs) THEN <<>>
    ELSE <<SendEvent(chs[i], recipient, message, results[i])>>
         \o (IF results[i] /\ NotificationService_hasLogger
             THEN <<LogEvent(Lit("Notification sent via ") \o Channel_getChannelName(chs[i])
                             \o Lit(" to ") \o recipient)>>
             ELSE <<>>)
         \o NotifyFrom(chs, i + 1, recipient, message, results)

NotificationService_notify(chs, recipient, message, results) ==
    <<NotifyEvent(recipient, message)>> \o NotifyFrom(chs, 1, recipient, message, results)

\* NotificationService::addChannel
AddChannel(channel) ==
    /\ channels' = Append(channels, channel)
    /\ out' = IF NotificationService_hasLogger
              THEN <<LogEvent(Lit("Added notification channel: ")
                              \o Channel_getChannelName(channel))>>
              ELSE <<>>
    /\ last' = [op |-> "addChannel", channel |-> channel]
    /\ UNCHANGED <<impl, held, customers, tickets, customerCounter, ticketCounter,
                   custReturned, tktReturned, repoHist>>

\* NotificationService::notify called on the singleton
Notify(recipient, message, results) ==
    /\ results \in SendResults(channels)
    /\ out' = NotificationService_notify(channels, recipient, message, results)
    /\ last' = [op |-> "notify", recipient |-> recipient, message |-> message,
                results |-> results]
    /\ UNCHANGED <<impl, held, customers, tickets, customerCounter, ticketCounter, channels,
                   custReturned, tktReturned, repoHist>>

(***************************************************************************)
(* CustomerService.                                                        *)
(***************************************************************************)
\* "CUST-" + std::to_string(n)
CustomerIdOf(n) == Lit("CUST-") \o to_string(n)

\* the Customer that registerCustomer builds
NewCustomer(customerId, name, email, phone, type) ==
    LET prefix == CustomerFactory_getTypePrefix(type)
    IN  CustomerBuilder_build(
          CustomerBuilder_withType(
            CustomerBuilder_withPhone(
              CustomerBuilder_withEmail(
                CustomerBuilder_withName(
                  CustomerBuilder_withId(CustomerBuilder, customerId),
                  prefix \o name),
                email),
              phone),
            type))

RegisterLogLine(customerId, name, type) ==
    Lit("Customer registered: ") \o customerId \o Lit(" - ") \o name
    \o Lit(" (Type: ") \o CustomerFactory_getTypeName(type) \o Lit(")")

\* Mutant of NextCustomerNumber: customerCounter++ in place of ++customerCounter
NextCustomerNumber_postIncrement(svc) == customerCounter[svc]

\* Mutant of NextCustomerNumber: the counter is read but never advanced past its start
NextCustomerNumber_stuck(svc) == CustomerCounterStart + 1

\* the value of ++customerCounter
NextCustomerNumber(svc) == customerCounter[svc] + 1

RegisterCustomer(svc, name, email, phone, type) ==
    /\ svc \in DOMAIN customerCounter
    /\ LET customerId == CustomerIdOf(NextCustomerNumber(svc))
           customer == NewCustomer(customerId, name, email, phone, type)
       IN  /\ customerCounter' = [customerCounter EXCEPT ![svc] = @ + 1]
           /\ customers' = Repo_save(customers, customer)
           /\ out' = <<LogEvent(RegisterLogLine(customerId, name, type))>>
           /\ last' = [op |-> "registerCustomer", svc |-> svc, name |-> name,
                       email |-> email, phone |-> phone, type |-> type,
                       ret |-> customerId]
           /\ custReturned' = [custReturned EXCEPT ![svc] = Append(@, customerId)]
    /\ UNCHANGED <<impl, held, tickets, ticketCounter, channels, tktReturned, repoHist>>

\* CustomerService::getCustomer
GetCustomer(svc, customerId) ==
    /\ svc \in DOMAIN customerCounter
    /\ last' = [op |-> "getCustomer", svc |-> svc, customerId |-> customerId,
                ret |-> Repo_findById(customers, customerId)]
    /\ out' = <<>>
    /\ UNCHANGED <<impl, held, customers, tickets, customerCounter, ticketCounter, channels,
                   custReturned, tktReturned, repoHist>>

\* CustomerService::getAllCustomers
GetAllCustomers(svc) ==
    /\ svc \in DOMAIN customerCounter
    /\ last' = [op |-> "getAllCustomers", svc |-> svc, ret |-> Repo_findAll(customers)]
    /\ out' = <<>>
    /\ UNCHANGED <<impl, held, customers, tickets, customerCounter, ticketCounter, channels,
                   custReturned, tktReturned, repoHist>>

(***************************************************************************)
(* TicketService.                                                          *)
(***************************************************************************)
\* "TKT-" + std::to_string(n)
TicketIdOf(n) == Lit("TKT-") \o to_string(n)

\* Mutant of NextTicketNumber: one counter numbers customers and tickets
NextTicketNumber_sharedCounter(svc) ==
    customerCounter[1] + (ticketCounter[svc] - TicketCounterStart) + 1

\* the value of ++ticketCounter
NextTicketNumber(svc) == ticketCounter[svc] + 1

\* for (const auto& tag : defaultTags) builder.addTag(tag), from position i on
RECURSIVE BuilderAddTagsFrom(_, _, _)
BuilderAddTagsFrom(b, tags, i) ==
    IF i > Len(tags) THEN b
    ELSE BuilderAddTagsFrom(TicketBuilder_addTag(b, tags[i]), tags, i + 1)

\* the Ticket that createTicket builds
NewTicket(ticketId, customerId, description, priority, category, now) ==
    LET assignedAgent == TicketFactory_getAutoAssignedAgent(priority)
        builder == TicketBuilder_withCategory(
                     TicketBuilder_withPriority(
                       TicketBuilder_withDescription(
                         TicketBuilder_withCustomerId(
                           TicketBuilder_withId(TicketBuilder, ticketId),
                           customerId),
                         description),
                       priority),
                     category)
        withAgent == IF assignedAgent # EmptyString
                     THEN TicketBuilder_withAssignedTo(builder, assignedAgent)
                     ELSE builder
        defaultTags == TicketFactory_getDefaultTags(category)
    IN  TicketBuilder_build(BuilderAddTagsFrom(withAgent, defaultTags, 1), now)

CreateFailedLogLine(customerId) ==
    Lit("Failed to create ticket: Customer not found - ") \o customerId

CreateLogLine(ticketId, customer, priority, category) ==
    Lit("Ticket created: ") \o ticketId \o Lit(" for customer ") \o customer.name
    \o Lit(" (Category: ") \o TicketFactory_getCategoryName(category)
    \o Lit(", Priority: ") \o TicketFactory_getPriorityName(priority) \o Lit(")")

\* Mutant of CreateMessage: the description is left out of the message
CreateMessage_withoutDescription(ticketId, description, category) ==
    Lit("Your ticket ") \o ticketId \o Lit(" has been created. ")
    \o Lit("Category: ") \o TicketFactory_getCategoryName(category) \o Lit(". ")

CreateMessage(ticketId, description, category) ==
    Lit("Your ticket ") \o ticketId \o Lit(" has been created. ")
    \o Lit("Category: ") \o TicketFactory_getCategoryName(category) \o Lit(". ")
    \o Lit("Description: ") \o description

\* Mutant of CreateTicketNoCustomer: the counter is incremented before the check
CreateTicketNoCustomer_consumesId(svc, customerId, description, priority, category) ==
    /\ ticketCounter' = [ticketCounter EXCEPT ![svc] = @ + 1]
    /\ out' = <<LogEvent(CreateFailedLogLine(customerId))>>
    /\ last' = [op |-> "createTicket", svc |-> svc, customerId |-> customerId,
                description |-> description, priority |-> priority,
                category |-> category, ret |-> EmptyString]
    /\ UNCHANGED <<impl, held, customers, tickets, customerCounter, channels,
                   custReturned, tktReturned, repoHist>>

\* Mutant of CreateTicketNoCustomer: the ticket is saved before the check
CreateTicketNoCustomer_savesFirst(svc, customerId, description, priority, category) ==
    /\ tickets' = Repo_save(tickets,
                     NewTicket(TicketIdOf(NextTicketNumber(svc)), customerId,
                               description, priority, category, 100))
    /\ out' = <<LogEvent(CreateFailedLogLine(customerId))>>
    /\ last' = [op |-> "createTicket", svc |-> svc, customerId |-> customerId,
                description |-> description, priority |-> priority,
                category |-> category, ret |-> EmptyString]
    /\ UNCHANGED <<impl, held, customers, customerCounter, ticketCounter, channels,
                   custReturned, tktReturned, repoHist>>

\* Mutant of CreateTicketNoCustomer: the ticket is created all the same, only
\* the notification is left out
CreateTicketNoCustomer_createsAnyway(svc, customerId, description, priority, category) ==
    /\ LET ticketId == TicketIdOf(NextTicketNumber(svc))
       IN  /\ ticketCounter' = [ticketCounter EXCEPT ![svc] = @ + 1]
           /\ tickets' = Repo_save(tickets,
                            NewTicket(ticketId, customerId, description, priority,
                                      category, 100))
           /\ out' = <<LogEvent(CreateFailedLogLine(customerId))>>
           /\ last' = [op |-> "createTicket", svc |-> svc, customerId |-> customerId,
                       description |-> description, priority |-> priority,
                       category |-> category, ret |-> ticketId]
           /\ tktReturned' = [tktReturned EXCEPT ![svc] = Append(@, ticketId)]
    /\ UNCHANGED <<impl, held, customers, customerCounter, channels, custReturned, repoHist>>

\* createTicket when customerRepo.findById(customerId) is null
CreateTicketNoCustomer(svc, customerId, description, priority, category) ==
    /\ out' = <<LogEvent(CreateFailedLogLine(customerId))>>
    /\ last' = [op |-> "createTicket", svc |-> svc, customerId |-> customerId,
                description |-> description, priority |-> priority,
                category |-> category, ret |-> EmptyString]
    /\ UNCHANGED <<impl, held, customers, tickets, customerCounter, ticketCounter, channels,
                   custReturned, tktReturned, repoHist>>

\* Mutant of CreateTicketEffects: the customer is notified before the ticket
\* is saved
CreateTicketEffects_notifiesFirst(ticket, logLine, notification) ==
    notification \o <<SaveEvent(ticket), LogEvent(logLine)>>

\* the effects of createTicket after the ticket is built, in program order
CreateTicketEffects(ticket, logLine, notification) ==
    <<SaveEvent(ticket), LogEvent(logLine)>> \o notification

\* createTicket when the customer was found
CreateTicketFound(svc, customer, customerId, description, priority, category, now, results) ==
    /\ LET ticketId == TicketIdOf(NextTicketNumber(svc))
           ticket == NewTicket(ticketId, customerId, description, priority, category, now)
       IN  /\ ticketCounter' = [ticketCounter EXCEPT ![svc] = @ + 1]
           /\ tickets' = Repo_save(tickets, ticket)
           /\ out' = CreateTicketEffects(ticket,
                         CreateLogLine(ticketId, customer, priority, category),
                         NotificationService_notify(channels, customer.email,
                             CreateMessage(ticketId, description, category), results))
           /\ last' = [op |-> "createTicket", svc |-> svc, customerId |-> customerId,
                       description |-> description, priority |-> priority,
                       category |-> category, ret |-> ticketId]
           /\ tktReturned' = [tktReturned EXCEPT ![svc] = Append(@, ticketId)]
    /\ held' = AfterSave(held, TicketIdOf(NextTicketNumber(svc)))
    /\ UNCHANGED <<impl, customers, customerCounter, channels, custReturned, repoHist>>

\* TicketService::createTicket
CreateTicket(svc, customerId, description, priority, category, now, results) ==
    /\ svc \in DOMAIN ticketCounter
    /\ results \in SendResults(channels)
    /\ LET customer == Repo_findById(customers, customerId)
       IN  IF customer = NullPtr
           THEN CreateTicketNoCustomer(svc, customerId, description, priority, category)
           ELSE CreateTicketFound(svc, customer, customerId, description, priority,
                                  category, now, results)

UpdateFailedLogLine(ticketId) ==
    Lit("Failed to update ticket: Ticket not found - ") \o ticketId

UpdateLogLine(ticketId, newStatus) ==
    Lit("Ticket status updated: ") \o ticketId \o Lit(" to ")
    \o TicketFactory_getStatusName(newStatus)

UpdateMessage(ticketId, newStatus) ==
    Lit("Your ticket ") \o ticketId \o Lit(" status has been updated to: ")
    \o TicketFactory_getStatusName(newStatus)

\* Mutant of UpdateTicketStatusNoTicket: the lookup inserts an entry, as
\* std::map::operator[] does
UpdateTicketStatusNoTicket_inserts(svc, ticketId, newStatus) ==
    /\ tickets' = Repo_save(tickets,
                     Ticket(ticketId, EmptyString, EmptyString, "MEDIUM", "GENERAL", 0))
    /\ out' = <<LogEvent(UpdateFailedLogLine(ticketId))>>
    /\ last' = [op |-> "updateTicketStatus", svc |-> svc, ticketId |-> ticketId,
                newStatus |-> newStatus, ret |-> FALSE]
    /\ UNCHANGED <<impl, held, customers, customerCounter, ticketCounter, channels,
                   custReturned, tktReturned, repoHist>>

\* updateTicketStatus when ticketRepo.findById(ticketId) is null
UpdateTicketStatusNoTicket(svc, ticketId, newStatus) ==
    /\ out' = <<LogEvent(UpdateFailedLogLine(ticketId))>>
    /\ last' = [op |-> "updateTicketStatus", svc |-> svc, ticketId |-> ticketId,
                newStatus |-> newStatus, ret |-> FALSE]
    /\ UNCHANGED <<impl, held, customers, tickets, customerCounter, ticketCounter, channels,
                   custReturned, tktReturned, repoHist>>

\* Mutant of UpdateTicketStatusFound: no notification when the status stays the same
UpdateTicketStatusFound_quietWhenSame(svc, ticket, ticketId, newStatus, results) ==
    LET updated == Ticket_setStatus(ticket, newStatus)
        customer == Repo_findById(customers, updated.customerId)
    IN  /\ tickets' = Repo_save(tickets, updated)
        /\ out' = <<SaveEvent(updated)>>
                  \o (IF customer # NullPtr /\ ticket.status # newStatus
                      THEN NotificationService_notify(channels, customer.email,
                               UpdateMessage(ticketId, newStatus), results)
                      ELSE <<>>)
                  \o <<LogEvent(UpdateLogLine(ticketId, newStatus))>>
        /\ last' = [op |-> "updateTicketStatus", svc |-> svc, ticketId |-> ticketId,
                    newStatus |-> newStatus, old |-> ticket.status, ret |-> TRUE]
        /\ UNCHANGED <<impl, held, customers, customerCounter, ticketCounter, channels,
                       custReturned, tktReturned, repoHist>>

\* updateTicketStatus when the ticket was found
UpdateTicketStatusFound(svc, ticket, ticketId, newStatus, results) ==
    LET updated == Ticket_setStatus(ticket, newStatus)
        customer == Repo_findById(customers, updated.customerId)
    IN  /\ tickets' = Repo_save(tickets, updated)
        /\ out' = <<SaveEvent(updated)>>
                  \o (IF customer # NullPtr
                      THEN NotificationService_notify(channels, customer.email,
                               UpdateMessage(ticketId, newStatus), results)
                      ELSE <<>>)
                  \o <<LogEvent(UpdateLogLine(ticketId, newStatus))>>
        /\ last' = [op |-> "updateTicketStatus", svc |-> svc, ticketId |-> ticketId,
                    newStatus |-> newStatus, old |-> ticket.status, ret |-> TRUE]
        /\ held' = AfterSave(AfterSetStatus(held, ticketId, newStatus), ticketId)
        /\ UNCHANGED <<impl, customers, customerCounter, ticketCounter, channels,
                       custReturned, tktReturned, repoHist>>

\* TicketService::updateTicketStatus
UpdateTicketStatus(svc, ticketId, newStatus, results) ==
    /\ svc \in DOMAIN ticketCounter
    /\ results \in SendResults(channels)
    /\ LET ticket == Repo_findById(tickets, ticketId)
       IN  IF ticket = NullPtr
           THEN UpdateTicketStatusNoTicket(svc, ticketId, newStatus)
           ELSE UpdateTicketStatusFound(svc, ticket, ticketId, newStatus, results)

\* TicketService::getAllTickets
GetAllTickets(svc) ==
    /\ svc \in DOMAIN ticketCounter
    /\ last' = [op |-> "getAllTickets", svc |-> svc, ret |-> Repo_findAll(tickets)]
    /\ out' = <<>>
    /\ UNCHANGED <<impl, held, customers, tickets, customerCounter, ticketCounter, channels,
                   custReturned, tktReturned, repoHist>>

(***************************************************************************)
(* The layered implementation: namespace domain.                           *)
(***************************************************************************)
\* domain::Customer, as domain::CustomerBuilder builds it
Domain_Customer(id, name, email, phone, type) ==
    [id |-> id, name |-> name, email |-> email, phone |-> phone, type |-> type]

\* domain::CustomerFactory::getTypePrefix
Domain_CustomerFactory_getTypePrefix(type) ==
    CASE type = "PREMIUM" -> Lit("[PREMIUM] ")
      [] type = "VIP" -> Lit("[VIP] ")
      [] OTHER -> EmptyString

\* domain::CustomerFactory::getTypeName
Domain_CustomerFactory_getTypeName(type) ==
    CASE type = "PREMIUM" -> Lit("Premium")
      [] type = "VIP" -> Lit("VIP")
      [] OTHER -> Lit("Regular")

\* domain::CustomerFactory::createCustomer
Domain_CustomerFactory_createCustomer(id, name, email, phone, type) ==
    LET finalName == Domain_CustomerFactory_getTypePrefix(type) \o name
    IN  Domain_Customer(id, finalName, email, phone, type)

\* infrastructure::InMemoryCustomerRepository / InMemoryTicketRepository
Infrastructure_save(map, record) ==
    [k \in (DOMAIN map) \cup {record.id} |-> IF k = record.id THEN record ELSE map[k]]

Infrastructure_findById(map, id) == IF id \in DOMAIN map THEN map[id] ELSE NullPtr

Infrastructure_findAll(map) == FindAllFrom(map, DOMAIN map)

\* domain::Ticket::Ticket
Domain_Ticket(id, customerId, description, priority, category, now) ==
    [id |-> id, customerId |-> customerId, description |-> description,
     status |-> "OPEN", priority |-> priority, createdAt |-> now,
     assignedTo |-> EmptyString, category |-> category, tags |-> <<>>]

Domain_Ticket_setStatus(t, s) == [t EXCEPT !.status = s]
Domain_Ticket_setAssignedTo(t, a) == [t EXCEPT !.assignedTo = a]
Domain_Ticket_addTag(t, tag) == [t EXCEPT !.tags = Append(@, tag)]

\* domain::TicketFactory: the names of the enumerators
Domain_TicketFactory_getCategoryName(category) ==
    CASE category = "TECHNICAL" -> Lit("Technical")
      [] category = "BILLING" -> Lit("Billing")
      [] category = "COMPLAINT" -> Lit("Complaint")
      [] category = "FEATURE_REQUEST" -> Lit("Feature Request")
      [] OTHER -> Lit("General")

Domain_TicketFactory_getPriorityName(priority) ==
    CASE priority = "LOW" -> Lit("Low")
      [] priority = "MEDIUM" -> Lit("Medium")
      [] priority = "HIGH" -> Lit("High")
      [] priority = "CRITICAL" -> Lit("Critical")
      [] OTHER -> Lit("Unknown")

Domain_TicketFactory_getStatusName(status) ==
    CASE status = "OPEN" -> Lit("Open")
      [] status = "IN_PROGRESS" -> Lit("In Progress")
      [] status = "RESOLVED" -> Lit("Resolved")
      [] status = "CLOSED" -> Lit("Closed")
      [] OTHER -> Lit("Unknown")

\* domain::TicketFactory::createTicket: the agent by priority, the default tags
Domain_TicketFactory_createTicket(id, customerId, description, priority, category, now) ==
    LET ticket == Domain_Ticket(id, customerId, description, priority, category, now)
        agent == CASE priority = "CRITICAL" -> Lit("Senior-Agent-001")
                   [] priority = "HIGH" -> Lit("Agent-002")
                   [] OTHER -> EmptyString
        assigned == IF agent # EmptyString
                    THEN Domain_Ticket_setAssignedTo(ticket, agent)
                    ELSE ticket
        withNew == Domain_Ticket_addTag(assigned, Lit("new"))
    IN  CASE category = "TECHNICAL" -> Domain_Ticket_addTag(withNew, Lit("technical-support"))
          [] category = "BILLING" -> Domain_Ticket_addTag(withNew, Lit("finance"))
          [] category = "COMPLAINT" -> Domain_Ticket_addTag(withNew, Lit("urgent"))
          [] category = "FEATURE_REQUEST" -> Domain_Ticket_addTag(withNew, Lit("product"))
          [] OTHER -> withNew

\* the logger handed to the services and to getInstance is not null
Domain_hasLogger == TRUE

\* domain::NotificationService::notify, from channel i on
RECURSIVE Domain_NotifyFrom(_, _, _, _, _)
Domain_NotifyFrom(chs, i, recipient, message, results) ==
    IF i > Len(chs) THEN <<>>
    ELSE LET ok == results[i]
         IN  <<SendEvent(chs[i], recipient, message, ok)>>
             \o (IF ok /\ Domain_hasLogger
                 THEN <<LogEvent(Lit("Notification sent via ")
                                 \o Channel_getChannelName(chs[i])
                                 \o Lit(" to ") \o recipient)>>
                 ELSE <<>>)
             \o Domain_NotifyFrom(chs, i + 1, recipient, message, results)

Domain_NotificationService_notify(chs, recipient, message, results) ==
    <<NotifyEvent(recipient, message)>>
    \o Domain_NotifyFrom(chs, 1, recipient, message, results)

\* domain::NotificationService::addChannel
Domain_AddChannel(channel) ==
    /\ channels' = Append(channels, channel)
    /\ out' = IF Domain_hasLogger
              THEN <<LogEvent(Lit("Added notification channel: ")
                              \o Channel_getChannelName(channel))>>
              ELSE <<>>
    /\ last' = [op |-> "addChannel", channel |-> channel]
    /\ UNCHANGED <<impl, held, customers, tickets, customerCounter, ticketCounter,
                   custReturned, tktReturned, repoHist>>

\* domain::NotificationService::notify called on the singleton
Domain_Notify(recipient, message, results) ==
    /\ results \in SendResults(channels)
    /\ out' = Domain_NotificationService_notify(channels, recipient, message, results)
    /\ last' = [op |-> "notify", recipient |-> recipient, message |-> message,
                results |-> results]
    /\ UNCHANGED <<impl, held, customers, tickets, customerCounter, ticketCounter, channels,
                   custReturned, tktReturned, repoHist>>

\* if (logger) logger->log(message)
Domain_Log(message) == IF Domain_hasLogger THEN <<LogEvent(message)>> ELSE <<>>

\* the value of ++counter in domain::CustomerService
Domain_NextCustomerNumber(svc) == customerCounter[svc] + 1

\* domain::CustomerService::registerCustomer
Domain_RegisterCustomer(svc, name, email, phone, type) ==
    /\ svc \in DOMAIN customerCounter
    /\ LET id == Lit("CUST-") \o to_string(Domain_NextCustomerNumber(svc))
           customer == Domain_CustomerFactory_createCustomer(id, name, email, phone, type)
       IN  /\ customerCounter' = [customerCounter EXCEPT ![svc] = @ + 1]
           /\ customers' = Infrastructure_save(customers, customer)
           /\ out' = Domain_Log(Lit("Registered customer ") \o id \o Lit(" (")
                                \o Domain_CustomerFactory_getTypeName(type) \o Lit(")"))
           /\ last' = [op |-> "registerCustomer", svc |-> svc, name |-> name,
                       email |-> email, phone |-> phone, type |-> type, ret |-> id]
           /\ custReturned' = [custReturned EXCEPT ![svc] = Append(@, id)]
    /\ UNCHANGED <<impl, held, tickets, ticketCounter, channels, tktReturned, repoHist>>

\* domain::CustomerService::getCustomer
Domain_GetCustomer(svc, id) ==
    /\ svc \in DOMAIN customerCounter
    /\ last' = [op |-> "getCustomer", svc |-> svc, customerId |-> id,
                ret |-> Infrastructure_findById(customers, id)]
    /\ out' = <<>>
    /\ UNCHANGED <<impl, held, customers, tickets, customerCounter, ticketCounter, channels,
                   custReturned, tktReturned, repoHist>>

\* domain::CustomerService::getAllCustomers
Domain_GetAllCustomers(svc) ==
    /\ svc \in DOMAIN customerCounter
    /\ last' = [op |-> "getAllCustomers", svc |-> svc,
                ret |-> Infrastructure_findAll(customers)]
    /\ out' = <<>>
    /\ UNCHANGED <<impl, held, customers, tickets, customerCounter, ticketCounter, channels,
                   custReturned, tktReturned, repoHist>>

\* the value of ++counter in domain::TicketService
Domain_NextTicketNumber(svc) == ticketCounter[svc] + 1

Domain_CreateMessage(id, description, category) ==
    Lit("Your ticket ") \o id \o Lit(" has been created.\nCategory: ")
    \o Domain_TicketFactory_getCategoryName(category) \o Lit("\nDescription: ")
    \o description

\* domain::TicketService::createTicket when the customer is not found
Domain_CreateTicketNoCustomer(svc, customerId, description, priority, category) ==
    /\ out' = Domain_Log(Lit("Cannot create ticket: customer not found"))
    /\ last' = [op |-> "createTicket", svc |-> svc, customerId |-> customerId,
                description |-> description, priority |-> priority,
                category |-> category, ret |-> EmptyString]
    /\ UNCHANGED <<impl, held, customers, tickets, customerCounter, ticketCounter, channels,
                   custReturned, tktReturned, repoHist>>

\* domain::TicketService::createTicket when the customer was found
Domain_CreateTicketFound(svc, customer, customerId, description, priority, category, now, results) ==
    /\ LET id == Lit("TKT-") \o to_string(Domain_NextTicketNumber(svc))
           ticket == Domain_TicketFactory_createTicket(id, customerId, description,
                                                       priority, category, now)
       IN  /\ ticketCounter' = [ticketCounter EXCEPT ![svc] = @ + 1]
           /\ tickets' = Infrastructure_save(tickets, ticket)
           /\ out' = <<SaveEvent(ticket)>>
                     \o Domain_Log(Lit("Created ticket ") \o id \o Lit(" (Category=")
                                   \o Domain_TicketFactory_getCategoryName(category)
                                   \o Lit(", Priority=")
                                   \o Domain_TicketFactory_getPriorityName(priority)
                                   \o Lit(")"))
                     \o Domain_NotificationService_notify(channels, customer.email,
                            Domain_CreateMessage(id, description, category), results)
           /\ last' = [op |-> "createTicket", svc |-> svc, customerId |-> customerId,
                       description |-> description, priority |-> priority,
                       category |-> category, ret |-> id]
           /\ tktReturned' = [tktReturned EXCEPT ![svc] = Append(@, id)]
    /\ held' = AfterSave(held, Lit("TKT-") \o to_string(Domain_NextTicketNumber(svc)))
    /\ UNCHANGED <<impl, customers, customerCounter, channels, custReturned, repoHist>>

\* domain::TicketService::createTicket
Domain_CreateTicket(svc, customerId, description, priority, category, now, results) ==
    /\ svc \in DOMAIN ticketCounter
    /\ results \in SendResults(channels)
    /\ LET customer == Infrastructure_findById(customers, customerId)
       IN  IF customer = NullPtr
           THEN Domain_CreateTicketNoCustomer(svc, customerId, description, priority,
                                              category)
           ELSE Domain_CreateTicketFound(svc, customer, customerId, description,
                                         priority, category, now, results)

\* domain::TicketService::updateTicketStatus when the ticket is not found
Domain_UpdateTicketStatusNoTicket(svc, ticketId, status) ==
    /\ out' = Domain_Log(Lit("Ticket not found: ") \o ticketId)
    /\ last' = [op |-> "updateTicketStatus", svc |-> svc, ticketId |-> ticketId,
                newStatus |-> status, ret |-> FALSE]
    /\ UNCHANGED <<impl, held, customers, tickets, customerCounter, ticketCounter, channels,
                   custReturned, tktReturned, repoHist>>

\* domain::TicketService::updateTicketStatus when the ticket was found
Domain_UpdateTicketStatusFound(svc, ticket, ticketId, status, results) ==
    LET updated == Domain_Ticket_setStatus(ticket, status)
        customer == Infrastructure_findById(customers, updated.customerId)
    IN  /\ tickets' = Infrastructure_save(tickets, updated)
        /\ out' = <<SaveEvent(updated)>>
                  \o (IF customer # NullPtr
                   THEN Domain_NotificationService_notify(channels, customer.email,
                            Lit("Your ticket ") \o ticketId \o Lit(" status changed to ")
                            \o Domain_TicketFactory_getStatusName(status), results)
                   ELSE <<>>)
                  \o Domain_Log(Lit("Ticket ") \o ticketId \o Lit(" updated to ")
                                \o Domain_TicketFactory_getStatusName(status))
        /\ last' = [op |-> "updateTicketStatus", svc |-> svc, ticketId |-> ticketId,
                    newStatus |-> status, old |-> ticket.status, ret |-> TRUE]
        /\ held' = AfterSave(AfterSetStatus(held, ticketId, status), ticketId)
        /\ UNCHANGED <<impl, customers, customerCounter, ticketCounter, channels,
                       custReturned, tktReturned, repoHist>>

\* domain::TicketService::updateTicketStatus
Domain_UpdateTicketStatus(svc, ticketId, status, results) ==
    /\ svc \in DOMAIN ticketCounter
    /\ results \in SendResults(channels)
    /\ LET ticket == Infrastructure_findById(tickets, ticketId)
       IN  IF ticket = NullPtr
           THEN Domain_UpdateTicketStatusNoTicket(svc, ticketId, status)
           ELSE Domain_UpdateTicketStatusFound(svc, ticket, ticketId, status, results)

\* domain::TicketService::getAllTickets
Domain_GetAllTickets(svc) ==
    /\ svc \in DOMAIN ticketCounter
    /\ last' = [op |-> "getAllTickets", svc |-> svc,
                ret |-> Infrastructure_findAll(tickets)]
    /\ out' = <<>>
    /\ UNCHANGED <<impl, held, customers, tickets, customerCounter, ticketCounter, channels,
                   custReturned, tktReturned, repoHist>>

(***************************************************************************)
(* A call on the services of the implementation that runs.                 *)
(***************************************************************************)
Call_registerCustomer(svc, name, email, phone, type) ==
    \/ impl = "flat" /\ RegisterCustomer(svc, name, email, phone, type)
    \/ impl = "layered" /\ Domain_RegisterCustomer(svc, name, email, phone, type)

Call_getCustomer(svc, id) ==
    \/ impl = "flat" /\ GetCustomer(svc, id)
    \/ impl = "layered" /\ Domain_GetCustomer(svc, id)

Call_getAllCustomers(svc) ==
    \/ impl = "flat" /\ GetAllCustomers(svc)
    \/ impl = "layered" /\ Domain_GetAllCustomers(svc)

Call_createTicket(svc, customerId, description, priority, category, now, results) ==
    \/ impl = "flat"
       /\ CreateTicket(svc, customerId, description, priority, category, now, results)
    \/ impl = "layered"
       /\ Domain_CreateTicket(svc, customerId, description, priority, category, now, results)

Call_updateTicketStatus(svc, ticketId, status, results) ==
    \/ impl = "flat" /\ UpdateTicketStatus(svc, ticketId, status, results)
    \/ impl = "layered" /\ Domain_UpdateTicketStatus(svc, ticketId, status, results)

Call_getAllTickets(svc) ==
    \/ impl = "flat" /\ GetAllTickets(svc)
    \/ impl = "layered" /\ Domain_GetAllTickets(svc)

Call_addChannel(channel) ==
    \/ impl = "flat" /\ AddChannel(channel)
    \/ impl = "layered" /\ Domain_AddChannel(channel)

Call_notify(recipient, message, results) ==
    \/ impl = "flat" /\ Notify(recipient, message, results)
    \/ impl = "layered" /\ Domain_Notify(recipient, message, results)

(***************************************************************************)
(* Start-up.                                                               *)
(***************************************************************************)
\* main(): empty singleton repositories, the three channels added, one
\* CustomerService and one TicketService constructed
InitWired ==
    /\ impl \in {"flat", "layered"}
    /\ customers = <<>>
    /\ tickets = <<>>
    /\ customerCounter = [s \in {1} |-> CustomerCounterStart]
    /\ ticketCounter = [s \in {1} |-> TicketCounterStart]
    /\ channels = <<"Email", "SMS", "Push">>
    /\ last = [op |-> "none"]
    /\ out = <<>>
    /\ custReturned = [s \in {1} |-> <<>>]
    /\ tktReturned = [s \in {1} |-> <<>>]
    /\ repoHist = <<>>
    /\ held = <<>>

\* the same, the flat implementation running
InitFlat == InitWired /\ impl = "flat"

\* the singletons and the services before any addChannel call
InitBare ==
    /\ impl \in {"flat", "layered"}
    /\ customers = <<>>
    /\ tickets = <<>>
    /\ customerCounter = [s \in {1} |-> CustomerCounterStart]
    /\ ticketCounter = [s \in {1} |-> TicketCounterStart]
    /\ channels = <<>>
    /\ last = [op |-> "none"]
    /\ out = <<>>
    /\ custReturned = [s \in {1} |-> <<>>]
    /\ tktReturned = [s \in {1} |-> <<>>]
    /\ repoHist = <<>>
    /\ held = <<>>

(***************************************************************************)
(* Inputs and the guards that keep the counters within the bounds.         *)
(***************************************************************************)
Names == {Lit("Jane"), Lit("Alice")}
Emails == {Lit("a@x.com"), Lit("j@x.com")}
Phones == {Lit("555-0001"), Lit("555-0002")}
Descriptions == {Lit("printer broken")}
Times == {100}

\* registrations used where the customers only have to exist
Registrations ==
    {<<Lit("Alice"), Lit("a@x.com"), Lit("555-0001"), "REGULAR">>,
     <<Lit("Jane"), Lit("j@x.com"), Lit("555-0002"), "VIP">>}

\* priority and category used where the tickets only have to exist
Requests == {<<"HIGH", "TECHNICAL">>, <<"LOW", "GENERAL">>}

\* the first max customer IDs a service generates
GeneratedCustomerIds(max) == {CustomerIdOf(CustomerCounterStart + k) : k \in 1..max}

\* customer IDs a caller may pass: those, and one that no service of the model
\* generates
CustomerIdInputs(max) == GeneratedCustomerIds(max) \cup {CustomerIdOf(9999)}

\* ticket IDs a caller may pass
TicketIdInputs(max) ==
    {TicketIdOf(TicketCounterStart + k) : k \in 1..max} \cup {TicketIdOf(9999)}

\* the service has registered fewer than max customers
MayRegister(svc, max) == customerCounter[svc] < CustomerCounterStart + max

\* a createTicket for customerId would fail, or the service has created fewer
\* than max tickets
MayCreate(svc, customerId, max) ==
    customerId \in DOMAIN customers => ticketCounter[svc] < TicketCounterStart + max

(***************************************************************************)
(* SpecCustomers: the customer service, with every combination of inputs.  *)
(***************************************************************************)
NextCustomers ==
    \/ \E name \in Names, email \in Emails, phone \in Phones, type \in CustomerType :
         MayRegister(1, MaxCustomers) /\ Call_registerCustomer(1, name, email, phone, type)
    \/ \E id \in CustomerIdInputs(MaxCustomers) : Call_getCustomer(1, id)
    \/ Call_getAllCustomers(1)

SpecCustomers == InitWired /\ [][NextCustomers]_vars

(***************************************************************************)
(* SpecCreate: registration and ticket creation, several tickets.          *)
(***************************************************************************)
NextCreate ==
    \/ \E r \in Registrations :
         MayRegister(1, MaxCustomers) /\ Call_registerCustomer(1, r[1], r[2], r[3], r[4])
    \/ \E id \in CustomerIdInputs(MaxCustomers), d \in Descriptions, q \in Requests,
          now \in Times, res \in SendResults(channels) :
         MayCreate(1, id, MaxTickets) /\ Call_createTicket(1, id, d, q[1], q[2], now, res)
    \/ Call_getAllTickets(1)

SpecCreate == InitWired /\ [][NextCreate]_vars

(***************************************************************************)
(* SpecFactory: ticket creation with every priority and category.          *)
(***************************************************************************)
NextFactory ==
    \/ \E r \in Registrations :
         MayRegister(1, FewCustomers) /\ RegisterCustomer(1, r[1], r[2], r[3], r[4])
    \/ \E id \in GeneratedCustomerIds(FewCustomers), d \in Descriptions, p \in Priority,
          c \in TicketCategory, now \in Times, res \in SendResults(channels) :
         MayCreate(1, id, FewTickets) /\ CreateTicket(1, id, d, p, c, now, res)
    \/ GetAllTickets(1)

SpecFactory == InitFlat /\ [][NextFactory]_vars

(***************************************************************************)
(* SpecTickets: ticket creation in both implementations, with every        *)
(* combination of customer, description, priority and category.            *)
(***************************************************************************)
\* the registration used where only the customer IDs matter
OneRegistration == {<<Lit("Alice"), Lit("a@x.com"), Lit("555-0001"), "REGULAR">>}

NextTickets ==
    \/ \E r \in OneRegistration :
         MayRegister(1, MaxCustomers) /\ Call_registerCustomer(1, r[1], r[2], r[3], r[4])
    \/ \E id \in GeneratedCustomerIds(MaxCustomers), d \in Descriptions, p \in Priority,
          c \in TicketCategory, now \in Times, res \in SendResults(channels) :
         MayCreate(1, id, FewTickets) /\ Call_createTicket(1, id, d, p, c, now, res)

SpecTickets == InitWired /\ [][NextTickets]_vars

(***************************************************************************)
(* Spec: the program as main() wires it: registration, ticket creation,    *)
(* status updates and the listings.                                        *)
(***************************************************************************)
Next ==
    \/ \E r \in Registrations :
         MayRegister(1, FewCustomers) /\ Call_registerCustomer(1, r[1], r[2], r[3], r[4])
    \/ \E id \in CustomerIdInputs(FewCustomers), d \in Descriptions,
          now \in Times, res \in SendResults(channels) :
         MayCreate(1, id, MaxTickets) /\ Call_createTicket(1, id, d, "HIGH", "BILLING", now, res)
    \/ \E id \in TicketIdInputs(MaxTickets), st \in TicketStatus,
          res \in SendResults(channels) :
         Call_updateTicketStatus(1, id, st, res)
    \/ Call_getAllCustomers(1)
    \/ Call_getAllTickets(1)

Spec == InitWired /\ [][Next]_vars

(***************************************************************************)
(* SpecMulti: several service objects over the singleton repositories.     *)
(***************************************************************************)
\* CustomerService::CustomerService on InMemoryCustomerRepository::getInstance()
NewCustomerService ==
    LET svc == Cardinality(DOMAIN customerCounter) + 1
    IN  /\ customerCounter' = [s \in (DOMAIN customerCounter) \cup {svc} |->
                                 IF s = svc THEN CustomerCounterStart ELSE customerCounter[s]]
        /\ custReturned' = [s \in (DOMAIN custReturned) \cup {svc} |->
                              IF s = svc THEN <<>> ELSE custReturned[s]]
        /\ last' = [op |-> "CustomerService", svc |-> svc]
        /\ out' = <<>>
        /\ UNCHANGED <<impl, held, customers, tickets, ticketCounter, channels, tktReturned, repoHist>>

\* TicketService::TicketService on the singleton repositories
NewTicketService ==
    LET svc == Cardinality(DOMAIN ticketCounter) + 1
    IN  /\ ticketCounter' = [s \in (DOMAIN ticketCounter) \cup {svc} |->
                               IF s = svc THEN TicketCounterStart ELSE ticketCounter[s]]
        /\ tktReturned' = [s \in (DOMAIN tktReturned) \cup {svc} |->
                             IF s = svc THEN <<>> ELSE tktReturned[s]]
        /\ last' = [op |-> "TicketService", svc |-> svc]
        /\ out' = <<>>
        /\ UNCHANGED <<impl, held, customers, tickets, customerCounter, channels, custReturned, repoHist>>

NextMulti ==
    \/ Cardinality(DOMAIN customerCounter) < MaxServices /\ NewCustomerService
    \/ Cardinality(DOMAIN ticketCounter) < MaxServices /\ NewTicketService
    \/ \E svc \in DOMAIN customerCounter, r \in Registrations :
         MayRegister(svc, FewCustomers) /\ RegisterCustomer(svc, r[1], r[2], r[3], r[4])
    \/ \E svc \in DOMAIN ticketCounter, id \in GeneratedCustomerIds(FewCustomers),
          d \in Descriptions, q \in Requests, now \in Times,
          res \in SendResults(channels) :
         MayCreate(svc, id, FewTickets) /\ CreateTicket(svc, id, d, q[1], q[2], now, res)

SpecMulti == InitFlat /\ [][NextMulti]_vars

(***************************************************************************)
(* SpecRepo: the two repositories called directly.                         *)
(***************************************************************************)
\* InMemoryCustomerRepository::save
CustomerRepository_save(customer) ==
    /\ customers' = Repo_save(customers, customer)
    /\ repoHist' = Append(repoHist, [repo |-> "customer", record |-> customer])
    /\ last' = [op |-> "save", repo |-> "customer", record |-> customer]
    /\ out' = <<>>
    /\ UNCHANGED <<impl, held, tickets, customerCounter, ticketCounter, channels,
                   custReturned, tktReturned>>

\* InMemoryTicketRepository::save
TicketRepository_save(ticket) ==
    /\ tickets' = Repo_save(tickets, ticket)
    /\ repoHist' = Append(repoHist, [repo |-> "ticket", record |-> ticket])
    /\ last' = [op |-> "save", repo |-> "ticket", record |-> ticket]
    /\ out' = <<>>
    /\ held' = AfterSave(held, ticket.id)
    /\ UNCHANGED <<impl, customers, customerCounter, ticketCounter, channels,
                   custReturned, tktReturned>>

\* InMemoryCustomerRepository::findById
CustomerRepository_findById(id) ==
    /\ last' = [op |-> "findById", repo |-> "customer", id |-> id,
                ret |-> Repo_findById(customers, id)]
    /\ out' = <<>>
    /\ UNCHANGED <<impl, held, customers, tickets, customerCounter, ticketCounter, channels,
                   custReturned, tktReturned, repoHist>>

\* InMemoryTicketRepository::findById
TicketRepository_findById(id) ==
    /\ last' = [op |-> "findById", repo |-> "ticket", id |-> id,
                ret |-> Repo_findById(tickets, id)]
    /\ out' = <<>>
    /\ UNCHANGED <<impl, held, customers, tickets, customerCounter, ticketCounter, channels,
                   custReturned, tktReturned, repoHist>>

\* InMemoryCustomerRepository::findAll
CustomerRepository_findAll ==
    /\ last' = [op |-> "findAll", repo |-> "customer", ret |-> Repo_findAll(customers)]
    /\ out' = <<>>
    /\ UNCHANGED <<impl, held, customers, tickets, customerCounter, ticketCounter, channels,
                   custReturned, tktReturned, repoHist>>

\* InMemoryTicketRepository::findAll
TicketRepository_findAll ==
    /\ last' = [op |-> "findAll", repo |-> "ticket", ret |-> Repo_findAll(tickets)]
    /\ out' = <<>>
    /\ UNCHANGED <<impl, held, customers, tickets, customerCounter, ticketCounter, channels,
                   custReturned, tktReturned, repoHist>>

\* records a caller may pass to save
CustomerRecords ==
    {Customer(id, name, Lit("a@x.com"), Lit("555-0001"), "REGULAR") :
       id \in GeneratedCustomerIds(2), name \in Names}

TicketRecords ==
    {Ticket_setStatus(
       Ticket(TicketIdOf(TicketCounterStart + k), CustomerIdOf(1001),
              Lit("printer broken"), "LOW", "GENERAL", 100), st) :
       k \in 1..2, st \in {"OPEN", "CLOSED"}}

NextRepo ==
    \/ \E c \in CustomerRecords :
         Len(repoHist) < MaxRepoSaves /\ CustomerRepository_save(c)
    \/ \E t \in TicketRecords :
         Len(repoHist) < MaxRepoSaves /\ TicketRepository_save(t)
    \/ \E id \in CustomerIdInputs(2) : CustomerRepository_findById(id)
    \/ \E id \in TicketIdInputs(2) : TicketRepository_findById(id)
    \/ CustomerRepository_findAll
    \/ TicketRepository_findAll

SpecRepo == InitFlat /\ [][NextRepo]_vars

(***************************************************************************)
(* SpecOrphan: the services, and a ticket put into the singleton ticket    *)
(* repository directly whose customerId no stored customer has.            *)
(***************************************************************************)
\* infrastructure::InMemoryTicketRepository::save
Infrastructure_TicketRepository_save(ticket) ==
    /\ tickets' = Infrastructure_save(tickets, ticket)
    /\ repoHist' = Append(repoHist, [repo |-> "ticket", record |-> ticket])
    /\ last' = [op |-> "save", repo |-> "ticket", record |-> ticket]
    /\ out' = <<>>
    /\ held' = AfterSave(held, ticket.id)
    /\ UNCHANGED <<impl, customers, customerCounter, ticketCounter, channels,
                   custReturned, tktReturned>>

Call_saveTicket(ticket) ==
    \/ impl = "flat" /\ TicketRepository_save(ticket)
    \/ impl = "layered" /\ Infrastructure_TicketRepository_save(ticket)

\* tickets of a customer that is not stored
OrphanTickets ==
    {Ticket(TicketIdOf(9999), CustomerIdOf(9999), Lit("printer broken"), "LOW", "GENERAL", 100)}

NextOrphan ==
    \/ \E r \in OneRegistration :
         MayRegister(1, FewCustomers) /\ Call_registerCustomer(1, r[1], r[2], r[3], r[4])
    \/ \E id \in GeneratedCustomerIds(FewCustomers), d \in Descriptions,
          now \in Times, res \in SendResults(channels) :
         MayCreate(1, id, FewTickets) /\ Call_createTicket(1, id, d, "LOW", "GENERAL", now, res)
    \/ \E t \in OrphanTickets :
         Len(repoHist) < MaxOrphans /\ Call_saveTicket(t)
    \/ \E id \in TicketIdInputs(FewTickets), st \in TicketStatus,
          res \in SendResults(channels) :
         Call_updateTicketStatus(1, id, st, res)

SpecOrphan == InitWired /\ [][NextOrphan]_vars

(***************************************************************************)
(* SpecChannels: channels added at run time, among them one whose send may *)
(* fail; notify called directly and through the ticket service.            *)
(***************************************************************************)
ChannelInputs == {"Email"} \cup OtherChannels

Recipients == {Lit("a@x.com"), Lit("ops@x.com")}

Messages == {Lit("hello")}

NextChannels ==
    \/ \E c \in ChannelInputs :
         Len(channels) < MaxChannels /\ Call_addChannel(c)
    \/ \E rcpt \in Recipients, msg \in Messages, res \in SendResults(channels) :
         Call_notify(rcpt, msg, res)
    \/ \E r \in OneRegistration :
         MayRegister(1, FewCustomers) /\ Call_registerCustomer(1, r[1], r[2], r[3], r[4])
    \/ \E id \in GeneratedCustomerIds(FewCustomers), d \in Descriptions,
          now \in Times, res \in SendResults(channels) :
         MayCreate(1, id, FewTickets) /\ Call_createTicket(1, id, d, "LOW", "GENERAL", now, res)
    \/ \E id \in TicketIdInputs(FewTickets), res \in SendResults(channels) :
         Call_updateTicketStatus(1, id, "RESOLVED", res)

SpecChannels == InitBare /\ [][NextChannels]_vars

(***************************************************************************)
(* SpecLifecycle: several registrations, then tickets created and updated, *)
(* and customers looked up, on one service of each kind.                   *)
(***************************************************************************)
NextLifecycle ==
    \/ \E r \in Registrations :
         MayRegister(1, MaxCustomers) /\ Call_registerCustomer(1, r[1], r[2], r[3], r[4])
    \/ \E id \in GeneratedCustomerIds(MaxCustomers), d \in Descriptions,
          now \in Times, res \in SendResults(channels) :
         MayCreate(1, id, FewTickets) /\ Call_createTicket(1, id, d, "LOW", "GENERAL", now, res)
    \/ \E id \in TicketIdInputs(FewTickets), st \in {"IN_PROGRESS", "CLOSED"},
          res \in SendResults(channels) :
         Call_updateTicketStatus(1, id, st, res)
    \/ \E id \in GeneratedCustomerIds(MaxCustomers) : Call_getCustomer(1, id)

SpecLifecycle == InitWired /\ [][NextLifecycle]_vars

(***************************************************************************)
(* SpecOrder: the repositories filled, in the order of creation, with      *)
(* records under IDs that one service generates; the numbers are the first *)
(* two of a service and the two around its 9000th call, where the numeral  *)
(* gets a fifth digit.                                                     *)
(***************************************************************************)
GeneratedNumbers == {1001, 1002, 9999, 10000}

\* the number n is greater than the number of every ID saved into repo so far
CreatedAfterAll(repo, n) ==
    \A i \in 1..Len(repoHist) :
        repoHist[i].repo = repo =>
            \E k \in GeneratedNumbers :
                /\ k < n
                /\ repoHist[i].record.id \in {CustomerIdOf(k), TicketIdOf(k)}

NextOrder ==
    \/ \E n \in GeneratedNumbers :
         /\ Len(repoHist) < MaxRepoSaves
         /\ CreatedAfterAll("customer", n)
         /\ CustomerRepository_save(
              Customer(CustomerIdOf(n), Lit("Alice"), Lit("a@x.com"), Lit("555-0001"), "REGULAR"))
    \/ \E n \in GeneratedNumbers :
         /\ Len(repoHist) < MaxRepoSaves
         /\ CreatedAfterAll("ticket", n)
         /\ TicketRepository_save(
              Ticket(TicketIdOf(n), CustomerIdOf(1001), Lit("printer broken"), "LOW",
                     "GENERAL", 100))
    \/ CustomerRepository_findAll
    \/ TicketRepository_findAll

SpecOrder == InitFlat /\ [][NextOrder]_vars

(***************************************************************************)
(* SpecShared: several customer and ticket services on the singleton       *)
(* repositories, through the three service calls only.                     *)
(***************************************************************************)
NextShared ==
    \/ Cardinality(DOMAIN customerCounter) < MaxServices /\ NewCustomerService
    \/ Cardinality(DOMAIN ticketCounter) < MaxServices /\ NewTicketService
    \/ \E svc \in DOMAIN customerCounter, r \in OneRegistration :
         MayRegister(svc, FewCustomers) /\ RegisterCustomer(svc, r[1], r[2], r[3], r[4])
    \/ \E svc \in DOMAIN ticketCounter, id \in GeneratedCustomerIds(FewCustomers),
          d \in Descriptions, now \in Times, res \in SendResults(channels) :
         MayCreate(svc, id, FewTickets) /\ CreateTicket(svc, id, d, "LOW", "GENERAL", now, res)
    \/ \E svc \in DOMAIN ticketCounter, id \in TicketIdInputs(FewTickets),
          res \in SendResults(channels) :
         UpdateTicketStatus(svc, id, "CLOSED", res)

SpecShared == InitFlat /\ [][NextShared]_vars

(***************************************************************************)
(* SpecHandles: a caller keeps the ticket pointers that findById and        *)
(* getAllTickets hand out while the service goes on updating the tickets.   *)
(***************************************************************************)
MaxHandles == 2

\* InMemoryTicketRepository::findById, the caller keeping the pointer
KeepFindById(id) ==
    /\ id \in DOMAIN tickets
    /\ Len(held) < MaxHandles
    /\ last' = [op |-> "findById", repo |-> "ticket", id |-> id,
                ret |-> Repo_findById(tickets, id)]
    /\ held' = Append(held, Handle(Repo_findById(tickets, id)))
    /\ out' = <<>>
    /\ UNCHANGED <<impl, customers, tickets, customerCounter, ticketCounter, channels,
                   custReturned, tktReturned, repoHist>>

\* TicketService::getAllTickets, the caller keeping the vector
KeepGetAllTickets(svc) ==
    /\ svc \in DOMAIN ticketCounter
    /\ tickets # <<>>
    /\ Len(held) + Len(Repo_findAll(tickets)) <= MaxHandles
    /\ last' = [op |-> "getAllTickets", svc |-> svc, ret |-> Repo_findAll(tickets)]
    /\ held' = held \o [i \in 1..Len(Repo_findAll(tickets)) |->
                            Handle(Repo_findAll(tickets)[i])]
    /\ out' = <<>>
    /\ UNCHANGED <<impl, customers, tickets, customerCounter, ticketCounter, channels,
                   custReturned, tktReturned, repoHist>>

NextHandles ==
    \/ \E r \in OneRegistration :
         MayRegister(1, FewCustomers) /\ RegisterCustomer(1, r[1], r[2], r[3], r[4])
    \/ \E id \in GeneratedCustomerIds(FewCustomers), d \in Descriptions,
          now \in Times, res \in SendResults(channels) :
         MayCreate(1, id, FewTickets) /\ CreateTicket(1, id, d, "LOW", "GENERAL", now, res)
    \/ \E id \in TicketIdInputs(FewTickets), st \in {"IN_PROGRESS", "CLOSED"},
          res \in SendResults(channels) :
         UpdateTicketStatus(1, id, st, res)
    \/ \E id \in TicketIdInputs(FewTickets) : KeepFindById(id)
    \/ KeepGetAllTickets(1)

SpecHandles == InitFlat /\ [][NextHandles]_vars

(***************************************************************************)
(* The console front ends.  A prompt first reads its inputs (last holds    *)
(* them, op = "prompt"), then maps the numeric selectors to enumerators    *)
(* and calls the service, or gives up.                                     *)
(***************************************************************************)
\* the value of an enumeration that no enumerator names, as static_cast of
\* the integer n yields it
Unnamed(n) ==
    CASE n = 3 -> "3" [] n = 4 -> "4" [] n = 5 -> "5" [] n = 6 -> "6"
      [] n = 7 -> "7" [] n = 8 -> "8" [] n = 9 -> "9"

\* a prompt has read its inputs
Prompted(prompt) == last.op = "prompt" /\ last.prompt = prompt

\* std::cout << text
PrintEvent(text) == [kind |-> "print", text |-> text]

\* a prompt that returns without calling a service
Abort(prompt, message) ==
    /\ last' = [op |-> "aborted", prompt |-> prompt]
    /\ out' = <<PrintEvent(message)>>
    /\ UNCHANGED <<impl, held, customers, tickets, customerCounter, ticketCounter, channels,
                   custReturned, tktReturned, repoHist>>

\* the inputs of the registration prompt are read
ReadRegistration(name, email, phone, typeChoice) ==
    /\ last.op # "prompt"
    /\ last' = [op |-> "prompt", prompt |-> "registerCustomer", name |-> name,
                email |-> email, phone |-> phone, typeChoice |-> typeChoice]
    /\ out' = <<>>
    /\ UNCHANGED <<impl, held, customers, tickets, customerCounter, ticketCounter, channels,
                   custReturned, tktReturned, repoHist>>

\* the inputs of the ticket creation prompt are read
ReadCreation(customerId, description, categoryChoice, priorityChoice) ==
    /\ last.op # "prompt"
    /\ last' = [op |-> "prompt", prompt |-> "createTicket", customerId |-> customerId,
                description |-> description, categoryChoice |-> categoryChoice,
                priorityChoice |-> priorityChoice]
    /\ out' = <<>>
    /\ UNCHANGED <<impl, held, customers, tickets, customerCounter, ticketCounter, channels,
                   custReturned, tktReturned, repoHist>>

\* the inputs of the status update prompt are read
ReadStatusUpdate(ticketId, statusChoice) ==
    /\ last.op # "prompt"
    /\ last' = [op |-> "prompt", prompt |-> "updateTicketStatus", ticketId |-> ticketId,
                statusChoice |-> statusChoice]
    /\ out' = <<>>
    /\ UNCHANGED <<impl, held, customers, tickets, customerCounter, ticketCounter, channels,
                   custReturned, tktReturned, repoHist>>

\* CLI::CommandLineInterface::registerCustomer: switch (typeChoice)
CLI_typeOf(typeChoice) ==
    CASE typeChoice = 2 -> "PREMIUM"
      [] typeChoice = 3 -> "VIP"
      [] OTHER -> "REGULAR"

\* CLI::CommandLineInterface::createTicket: switch (categoryChoice)
CLI_categoryOf(categoryChoice) ==
    CASE categoryChoice = 1 -> "TECHNICAL"
      [] categoryChoice = 2 -> "BILLING"
      [] categoryChoice = 4 -> "COMPLAINT"
      [] categoryChoice = 5 -> "FEATURE_REQUEST"
      [] OTHER -> "GENERAL"

\* CLI::CommandLineInterface::createTicket: switch (priorityChoice)
CLI_priorityOf(priorityChoice) ==
    CASE priorityChoice = 1 -> "LOW"
      [] priorityChoice = 2 -> "MEDIUM"
      [] priorityChoice = 3 -> "HIGH"
      [] priorityChoice = 4 -> "CRITICAL"
      [] OTHER -> "MEDIUM"

\* CLI::CommandLineInterface::updateTicketStatus: switch (statusChoice)
\* reaches a case label, not the default branch
CLI_statusChosen(statusChoice) == statusChoice \in {1, 2, 3, 4}

\* CLI::CommandLineInterface::updateTicketStatus: switch (statusChoice),
\* the case labels
CLI_statusOf(statusChoice) ==
    CASE statusChoice = 1 -> "OPEN"
      [] statusChoice = 2 -> "IN_PROGRESS"
      [] statusChoice = 3 -> "RESOLVED"
      [] statusChoice = 4 -> "CLOSED"

\* CLI::CommandLineInterface::registerCustomer, the inputs read
CLI_registerCustomer ==
    /\ Prompted("registerCustomer")
    /\ RegisterCustomer(1, last.name, last.email, last.phone, CLI_typeOf(last.typeChoice))

\* CLI::CommandLineInterface::createTicket, the inputs read
CLI_createTicket(now, results) ==
    /\ Prompted("createTicket")
    /\ CreateTicket(1, last.customerId, last.description,
                    CLI_priorityOf(last.priorityChoice),
                    CLI_categoryOf(last.categoryChoice), now, results)

\* CLI::CommandLineInterface::updateTicketStatus, the inputs read
CLI_updateTicketStatus(results) ==
    /\ Prompted("updateTicketStatus")
    /\ IF CLI_statusChosen(last.statusChoice)
       THEN UpdateTicketStatus(1, last.ticketId, CLI_statusOf(last.statusChoice), results)
       ELSE Abort("updateTicketStatus", Lit("Invalid choice."))

\* static_cast<domain::CustomerType>(type)
Client_castCustomerType(type) ==
    CASE type = 0 -> "REGULAR"
      [] type = 1 -> "PREMIUM"
      [] type = 2 -> "VIP"
      [] OTHER -> Unnamed(type)

\* static_cast<domain::Priority>(priority)
Client_castPriority(priority) ==
    CASE priority = 0 -> "LOW"
      [] priority = 1 -> "MEDIUM"
      [] priority = 2 -> "HIGH"
      [] priority = 3 -> "CRITICAL"
      [] OTHER -> Unnamed(priority)

\* static_cast<domain::TicketCategory>(category)
Client_castTicketCategory(category) ==
    CASE category = 0 -> "TECHNICAL"
      [] category = 1 -> "BILLING"
      [] category = 2 -> "GENERAL"
      [] category = 3 -> "COMPLAINT"
      [] category = 4 -> "FEATURE_REQUEST"
      [] OTHER -> Unnamed(category)

\* static_cast<domain::TicketStatus>(newStatus)
Client_castTicketStatus(newStatus) ==
    CASE newStatus = 0 -> "OPEN"
      [] newStatus = 1 -> "IN_PROGRESS"
      [] newStatus = 2 -> "RESOLVED"
      [] newStatus = 3 -> "CLOSED"
      [] OTHER -> Unnamed(newStatus)

\* client::CommandLineInterface::registerCustomerUI, the inputs read
Client_registerCustomerUI ==
    /\ Prompted("registerCustomer")
    /\ Domain_RegisterCustomer(1, last.name, last.email, last.phone,
                               Client_castCustomerType(last.typeChoice))

\* client::CommandLineInterface::createTicketUI, the inputs read
Client_createTicketUI(now, results) ==
    /\ Prompted("createTicket")
    /\ Domain_CreateTicket(1, last.customerId, last.description,
                           Client_castPriority(last.priorityChoice),
                           Client_castTicketCategory(last.categoryChoice), now, results)

\* client::CommandLineInterface::updateTicketStatusUI, the inputs read
Client_updateTicketStatusUI(results) ==
    /\ Prompted("updateTicketStatus")
    /\ Domain_UpdateTicketStatus(1, last.ticketId,
                                 Client_castTicketStatus(last.statusChoice), results)

\* the front end of the implementation that runs
Menu_registerCustomer ==
    \/ impl = "flat" /\ CLI_registerCustomer
    \/ impl = "layered" /\ Client_registerCustomerUI

Menu_createTicket(now, results) ==
    \/ impl = "flat" /\ CLI_createTicket(now, results)
    \/ impl = "layered" /\ Client_createTicketUI(now, results)

Menu_updateTicketStatus(results) ==
    \/ impl = "flat" /\ CLI_updateTicketStatus(results)
    \/ impl = "layered" /\ Client_updateTicketStatusUI(results)

(***************************************************************************)
(* SpecCLI: the program driven through the console menu.                   *)
(***************************************************************************)
\* numbers typed at the prompts: for each prompt some that the front ends
\* offer and some that neither of them offers
TypeSelectors == {0, 2, 4}

CategorySelectors == {1, 6}

PrioritySelectors == {3, 5}

StatusSelectors == {0, 4, 5}

NextCLI ==
    \/ \E r \in OneRegistration, typeChoice \in TypeSelectors :
         MayRegister(1, FewCustomers) /\ ReadRegistration(r[1], r[2], r[3], typeChoice)
    \/ Menu_registerCustomer
    \/ \E id \in GeneratedCustomerIds(FewCustomers), d \in Descriptions,
          c \in CategorySelectors, p \in PrioritySelectors :
         MayCreate(1, id, FewTickets) /\ ReadCreation(id, d, c, p)
    \/ \E now \in Times, res \in SendResults(channels) : Menu_createTicket(now, res)
    \/ \E id \in TicketIdInputs(FewTickets), st \in StatusSelectors :
         ReadStatusUpdate(id, st)
    \/ \E res \in SendResults(channels) : Menu_updateTicketStatus(res)

SpecCLI == InitWired /\ [][NextCLI]_vars

(***************************************************************************)
(* Claims.                                                                 *)
(***************************************************************************)
\* the decimal numeral of 1000 + k written out, for 1 <= k <= 9
Numeral100(k) ==
    CASE k = 1 -> <<"1", "0", "0", "1">> [] k = 2 -> <<"1", "0", "0", "2">>
      [] k = 3 -> <<"1", "0", "0", "3">> [] k = 4 -> <<"1", "0", "0", "4">>
      [] k = 5 -> <<"1", "0", "0", "5">> [] k = 6 -> <<"1", "0", "0", "6">>
      [] k = 7 -> <<"1", "0", "0", "7">> [] k = 8 -> <<"1", "0", "0", "8">>
      [] k = 9 -> <<"1", "0", "0", "9">>

NoSend(events) == \A i \in 1..Len(events) : events[i].kind # "send"

\* C1: on each CustomerService the k-th registerCustomer call returns "CUST-"
\* followed by 1000+k, whatever the arguments are, so the returned IDs are
\* pairwise distinct; the call just made returned the latest of them.
C1_RegisterIdsInCallOrder ==
    \A svc \in DOMAIN custReturned :
        /\ \A k \in 1..Len(custReturned[svc]) :
             custReturned[svc][k] = <<"CUST-">> \o Numeral100(k)
        /\ \A i, j \in 1..Len(custReturned[svc]) :
             i # j => custReturned[svc][i] # custReturned[svc][j]
        /\ (last.op = "registerCustomer" /\ last.svc = svc) =>
             last.ret = custReturned[svc][Len(custReturned[svc])]

\* two registrations with different arguments were made; the second returned CUST-1002
C1_Witness ==
    /\ last.op = "registerCustomer"
    /\ Len(custReturned[1]) = 2
    /\ last.ret = <<"CUST-", "1", "0", "0", "2">>
    /\ customers[<<"CUST-", "1", "0", "0", "1">>].type # last.type

\* C2: the k-th successful createTicket of a TicketService returns "TKT-"
\* followed by 1000+k, and the ticket counter counts the successful calls only:
\* a call that fails for an unknown customerId leaves it unchanged.
C2_TicketIdsSkipNoNumber ==
    \A svc \in DOMAIN tktReturned :
        /\ \A k \in 1..Len(tktReturned[svc]) :
             tktReturned[svc][k] = <<"TKT-">> \o Numeral100(k)
        /\ \A i, j \in 1..Len(tktReturned[svc]) :
             i # j => tktReturned[svc][i] # tktReturned[svc][j]
        /\ ticketCounter[svc] = TicketCounterStart + Len(tktReturned[svc])
        /\ (last.op = "createTicket" /\ last.svc = svc /\ last.ret # EmptyString) =>
             last.ret = tktReturned[svc][Len(tktReturned[svc])]

\* a createTicket call failed after one ticket had been created; the next
\* successful call is still to come
C2_Witness ==
    /\ last.op = "createTicket"
    /\ last.ret = EmptyString
    /\ tktReturned[1] = <<(<<"TKT-", "1", "0", "0", "1">>)>>
    /\ ticketCounter[1] = 1001

\* C3: createTicket with a customerId the customer repository has no record of
\* returns the empty string, leaves both repositories as they were and calls
\* send on no channel.
C3_CreateUnknownCustomerNoEffect ==
    [][(last'.op = "createTicket" /\ last'.customerId \notin DOMAIN customers) =>
         /\ last'.ret = EmptyString
         /\ tickets' = tickets
         /\ customers' = customers
         /\ NoSend(out')]_vars

\* a createTicket call failed while both repositories held records and
\* channels were registered
C3_Witness ==
    /\ last.op = "createTicket"
    /\ last.customerId \notin DOMAIN customers
    /\ last.ret = EmptyString
    /\ DOMAIN customers # {}
    /\ DOMAIN tickets # {}
    /\ Len(channels) > 0

\* C4: updateTicketStatus with a ticketId the ticket repository has no record
\* of returns false, leaves every stored ticket and the set of stored IDs
\* unchanged and sends no notification.
C4_UpdateUnknownTicketNoEffect ==
    [][(last'.op = "updateTicketStatus" /\ last'.ticketId \notin DOMAIN tickets) =>
         /\ last'.ret = FALSE
         /\ DOMAIN tickets' = DOMAIN tickets
         /\ \A id \in DOMAIN tickets : tickets'[id] = tickets[id]
         /\ NoSend(out')]_vars

\* an updateTicketStatus call failed while a ticket was stored
C4_Witness ==
    /\ last.op = "updateTicketStatus"
    /\ last.ticketId \notin DOMAIN tickets
    /\ last.ret = FALSE
    /\ DOMAIN tickets # {}
    /\ Len(channels) > 0

RECURSIVE SumLen(_, _)
SumLen(f, S) ==
    IF S = {} THEN 0
    ELSE LET s == CHOOSE x \in S : TRUE IN Len(f[s]) + SumLen(f, S \ {s})

\* C5: however many service objects were constructed over the singleton
\* repositories, findAll returns as many customers (tickets) as there were
\* successful registerCustomer (createTicket) calls: no call overwrote a record.
C5_OneRecordPerSuccessfulCall ==
    /\ Len(Repo_findAll(customers)) = SumLen(custReturned, DOMAIN custReturned)
    /\ Len(Repo_findAll(tickets)) = SumLen(tktReturned, DOMAIN tktReturned)

RepoOf(repo) == IF repo = "customer" THEN customers ELSE tickets

\* the records saved so far into one repository, in call order
SavesTo(repo) ==
    LET Into(e) == e.repo = repo IN SelectSeq(repoHist, Into)

DistinctIds(saves) ==
    \A i, j \in 1..Len(saves) : i # j => saves[i].record.id # saves[j].record.id

\* the record of the most recent save under id (there is one)
LastSaved(saves, id) ==
    LET n == CHOOSE i \in 1..Len(saves) :
               /\ saves[i].record.id = id
               /\ \A j \in (i + 1)..Len(saves) : saves[j].record.id # id
    IN  saves[n].record

\* C6: in both repositories, right after save(r) findById(r.id) yields r with
\* every field as saved; findById of a saved ID yields the record saved under it;
\* after N saves with pairwise distinct IDs into the empty repository findAll
\* returns exactly N records.
C6_RepositoryRoundTrip ==
    /\ last.op = "save" =>
         Repo_findById(RepoOf(last.repo), last.record.id) = last.record
    /\ (last.op = "findById"
        /\ \E i \in 1..Len(SavesTo(last.repo)) : SavesTo(last.repo)[i].record.id = last.id) =>
         last.ret = LastSaved(SavesTo(last.repo), last.id)
    /\ (last.op = "findAll" /\ DistinctIds(SavesTo(last.repo))) =>
         Len(last.ret) = Len(SavesTo(last.repo))
    /\ DistinctIds(SavesTo("customer")) =>
         Len(Repo_findAll(customers)) = Len(SavesTo("customer"))
    /\ DistinctIds(SavesTo("ticket")) =>
         Len(Repo_findAll(tickets)) = Len(SavesTo("ticket"))

\* findAll on the ticket repository after two saves with distinct IDs, one
\* customer saved as well
C6_Witness ==
    /\ last.op = "findAll"
    /\ last.repo = "ticket"
    /\ Len(SavesTo("ticket")) = 2
    /\ DistinctIds(SavesTo("ticket"))
    /\ Len(last.ret) = 2
    /\ Len(SavesTo("customer")) = 1

\* what C7 says of one repository, whose map is map before and map2 after the call
LastWriteWins(repo, map, map2, call) ==
    /\ (call.op = "save" /\ call.repo = repo /\ call.record.id \in DOMAIN map) =>
         /\ Repo_findById(map2, call.record.id) = call.record
         /\ Cardinality(DOMAIN map2) = Cardinality(DOMAIN map)
         /\ \A k \in (DOMAIN map) \ {call.record.id} :
              k \in DOMAIN map2 /\ map2[k] = map[k]
    /\ (call.op = "findById" /\ call.repo = repo /\ call.id \notin DOMAIN map) =>
         /\ call.ret = NullPtr
         /\ map2 = map

\* C7: save of a record whose ID is stored replaces that record, leaves the
\* number of records and every record under another ID unchanged; findById of
\* an ID that is not stored reports not-found and adds no entry.
C7_SaveIsLastWriteWins ==
    [][/\ LastWriteWins("customer", customers, customers', last')
       /\ LastWriteWins("ticket", tickets, tickets', last')]_vars

\* a customer was saved over a different record with the same ID while another
\* ID was stored
C7_Witness ==
    /\ last.op = "save"
    /\ last.repo = "customer"
    /\ Len(SavesTo("customer")) = 3
    /\ SavesTo("customer")[1].record.id = last.record.id
    /\ SavesTo("customer")[1].record # last.record
    /\ SavesTo("customer")[2].record.id # last.record.id
    /\ customers[last.record.id] = last.record

\* C8: after registerCustomer(name, email, phone, type) returns id, the customer
\* stored under id has name "[VIP] "+name for VIP, "[PREMIUM] "+name for Premium
\* and name for Regular, and the email, phone and type given.
C8_StoredNameCarriesTypePrefix ==
    last.op = "registerCustomer" =>
        /\ last.ret \in DOMAIN customers
        /\ customers[last.ret].id = last.ret
        /\ customers[last.ret].name =
             (CASE last.type = "VIP" -> <<"[VIP] ">> \o last.name
                [] last.type = "PREMIUM" -> <<"[PREMIUM] ">> \o last.name
                [] last.type = "REGULAR" -> last.name)
        /\ customers[last.ret].email = last.email
        /\ customers[last.ret].phone = last.phone
        /\ customers[last.ret].type = last.type

\* a VIP named Jane was registered and is stored as "[VIP] Jane"
C8_Witness ==
    /\ last.op = "registerCustomer"
    /\ last.type = "VIP"
    /\ last.name = <<"Jane">>
    /\ customers[last.ret].name = <<"[VIP] ", "Jane">>

\* C9: after a successful createTicket with priority p the stored ticket is
\* assigned to "Senior-Agent-001" for Critical, to "Agent-002" for High and to
\* nobody for Low and Medium, and its priority is p.
C9_AgentFollowsPriority ==
    (last.op = "createTicket" /\ last.ret # EmptyString) =>
        /\ last.ret \in DOMAIN tickets
        /\ tickets[last.ret].assignedTo =
             (CASE last.priority = "CRITICAL" -> <<"Senior-Agent-001">>
                [] last.priority = "HIGH" -> <<"Agent-002">>
                [] last.priority \in {"LOW", "MEDIUM"} -> <<>>)
        /\ tickets[last.ret].priority = last.priority

\* a Critical ticket was created and is assigned to the senior agent
C9_Witness ==
    /\ last.op = "createTicket"
    /\ last.ret # EmptyString
    /\ last.priority = "CRITICAL"
    /\ tickets[last.ret].assignedTo = <<"Senior-Agent-001">>

\* C10: after a successful createTicket with category c the stored ticket's
\* tags are "new" followed by the tag of c ("technical-support", "finance",
\* "urgent", "product"), and "new" alone for General.
C10_TagsFollowCategory ==
    (last.op = "createTicket" /\ last.ret # EmptyString) =>
        /\ last.ret \in DOMAIN tickets
        /\ tickets[last.ret].tags =
             (CASE last.category = "TECHNICAL" -> <<(<<"new">>), (<<"technical-support">>)>>
                [] last.category = "BILLING" -> <<(<<"new">>), (<<"finance">>)>>
                [] last.category = "COMPLAINT" -> <<(<<"new">>), (<<"urgent">>)>>
                [] last.category = "FEATURE_REQUEST" -> <<(<<"new">>), (<<"product">>)>>
                [] last.category = "GENERAL" -> <<(<<"new">>)>>)

\* a Billing ticket was created and carries the tags "new", "finance"
C10_Witness ==
    /\ last.op = "createTicket"
    /\ last.ret # EmptyString
    /\ last.category = "BILLING"
    /\ tickets[last.ret].tags = <<(<<"new">>), (<<"finance">>)>>

\* C11: when a successful createTicket returns, the ticket stored under the
\* returned ID has status Open, whatever customerId, description, priority and
\* category were passed, and its customerId, description and category are the
\* arguments of the call.
C11_CreatedTicketIsOpen ==
    (last.op = "createTicket" /\ last.ret # EmptyString) =>
        /\ last.ret \in DOMAIN tickets
        /\ tickets[last.ret].id = last.ret
        /\ tickets[last.ret].status = "OPEN"
        /\ tickets[last.ret].customerId = last.customerId
        /\ tickets[last.ret].description = last.description
        /\ tickets[last.ret].category = last.category

\* a Critical complaint was created for the second customer and is stored Open
C11_Witness ==
    /\ last.op = "createTicket"
    /\ last.ret # EmptyString
    /\ last.customerId = <<"CUST-", "1", "0", "0", "2">>
    /\ last.description = <<"printer broken">>
    /\ last.priority = "CRITICAL"
    /\ last.category = "COMPLAINT"
    /\ tickets[last.ret].status = "OPEN"
    /\ tickets[last.ret].customerId = <<"CUST-", "1", "0", "0", "2">>

\* C12: updateTicketStatus(ticketId, n) on a stored ticket, whatever status s
\* it is in and whatever n is (n = s and Closed to Open included), returns true
\* and leaves the ticket stored under ticketId with status n.
C12_AnyStatusToAnyStatus ==
    [][(last'.op = "updateTicketStatus" /\ last'.ticketId \in DOMAIN tickets) =>
         /\ last'.ret = TRUE
         /\ last'.old = tickets[last'.ticketId].status
         /\ last'.ticketId \in DOMAIN tickets'
         /\ tickets'[last'.ticketId].status = last'.newStatus
         /\ tickets'[last'.ticketId].id = last'.ticketId]_vars

\* a closed ticket was set back to Open
C12_Witness ==
    /\ last.op = "updateTicketStatus"
    /\ last.ret = TRUE
    /\ last.old = "CLOSED"
    /\ last.newStatus = "OPEN"
    /\ tickets[last.ticketId].status = "OPEN"

\* sub occurs in str as a contiguous run of symbols
Contains(str, sub) ==
    \E i \in 0..(Len(str) - Len(sub)) : SubSeq(str, i + 1, i + Len(sub)) = sub

\* the events of one kind among those a call emitted, in order
EventsOf(events, kind) ==
    LET OfKind(e) == e.kind = kind IN SelectSeq(events, OfKind)

\* the names the category of a ticket is shown under
CategoryLabel(category) ==
    CASE category = "TECHNICAL" -> <<"Technical">>
      [] category = "BILLING" -> <<"Billing">>
      [] category = "GENERAL" -> <<"General">>
      [] category = "COMPLAINT" -> <<"Complaint">>
      [] category = "FEATURE_REQUEST" -> <<"Feature Request">>

\* C13: a successful createTicket calls notify exactly once; the recipient is
\* the email of the customer stored under the customerId passed, and the message
\* contains the new ticket ID, the name of the category and the description.
\* Every send of the call carries that recipient and that message.
C13_CreateNotifiesCustomerOnce ==
    (last.op = "createTicket" /\ last.ret # EmptyString) =>
        LET calls == EventsOf(out, "notify")
            sends == EventsOf(out, "send")
        IN  /\ Len(calls) = 1
            /\ last.customerId \in DOMAIN customers
            /\ calls[1].recipient = customers[last.customerId].email
            /\ Contains(calls[1].text, last.ret)
            /\ Contains(calls[1].text, CategoryLabel(last.category))
            /\ Contains(calls[1].text, last.description)
            /\ \A i \in 1..Len(sends) :
                 /\ sends[i].recipient = calls[1].recipient
                 /\ sends[i].text = calls[1].text

\* Alice (a@x.com, 555-0001, Regular) is registered as CUST-1001; createTicket
\* (CUST-1001, "printer broken", High, Technical) returned TKT-1001 and a@x.com
\* was notified on the three channels
C13_Witness ==
    /\ last.op = "createTicket"
    /\ last.customerId = <<"CUST-", "1", "0", "0", "1">>
    /\ last.description = <<"printer broken">>
    /\ last.priority = "HIGH"
    /\ last.category = "TECHNICAL"
    /\ last.ret = <<"TKT-", "1", "0", "0", "1">>
    /\ customers[last.customerId].name = <<"Alice">>
    /\ Len(EventsOf(out, "notify")) = 1
    /\ EventsOf(out, "notify")[1].recipient = <<"a@x.com">>
    /\ Len(EventsOf(out, "send")) = 3

\* the names the status of a ticket is shown under
StatusLabel(status) ==
    CASE status = "OPEN" -> <<"Open">>
      [] status = "IN_PROGRESS" -> <<"In Progress">>
      [] status = "RESOLVED" -> <<"Resolved">>
      [] status = "CLOSED" -> <<"Closed">>

\* C14: a successful updateTicketStatus leaves the new status stored; when the
\* customer stored under the ticket's customerId resolves it calls notify
\* exactly once, to that customer's email, with a message containing the ticket
\* ID and the name of the new status (also when the status did not change);
\* when the customer does not resolve it sends nothing and still returns true.
C14_UpdateNotifiesIfCustomerResolves ==
    (last.op = "updateTicketStatus" /\ last.ret = TRUE) =>
        LET ticket == tickets[last.ticketId]
            calls == EventsOf(out, "notify")
            sends == EventsOf(out, "send")
        IN  /\ ticket.status = last.newStatus
            /\ IF ticket.customerId \in DOMAIN customers
               THEN /\ Len(calls) = 1
                    /\ calls[1].recipient = customers[ticket.customerId].email
                    /\ Contains(calls[1].text, last.ticketId)
                    /\ Contains(calls[1].text, StatusLabel(last.newStatus))
                    /\ Len(sends) = Len(channels)
                    /\ \A i \in 1..Len(sends) :
                         /\ sends[i].recipient = calls[1].recipient
                         /\ sends[i].text = calls[1].text
               ELSE /\ Len(calls) = 0
                    /\ Len(sends) = 0

\* the status of a ticket whose customer is not stored was updated while a
\* customer was registered and channels were added: true was returned,
\* nothing was sent
C14_Witness ==
    /\ last.op = "updateTicketStatus"
    /\ last.ret = TRUE
    /\ tickets[last.ticketId].customerId \notin DOMAIN customers
    /\ tickets[last.ticketId].status = "RESOLVED"
    /\ last.old = "OPEN"
    /\ DOMAIN customers # {}
    /\ Len(channels) = 3
    /\ NoSend(out)

\* C15: addChannel appends to the channel list and nothing else changes it;
\* notify(recipient, message) calls send once per entry of the list, in the
\* order of the list, with that recipient and message; a send that returns
\* false does not end or skip the sends after it, and an entry that occurs
\* twice is sent to twice.
C15_NotifyReachesEveryChannelInOrder ==
    [][/\ last'.op = "addChannel" => channels' = Append(channels, last'.channel)
       /\ last'.op # "addChannel" => channels' = channels
       /\ last'.op = "notify" =>
            LET sends == EventsOf(out', "send")
            IN  /\ Len(sends) = Len(channels)
                /\ \A i \in 1..Len(sends) :
                     /\ sends[i].channel = channels[i]
                     /\ sends[i].recipient = last'.recipient
                     /\ sends[i].text = last'.message
                     /\ sends[i].ok = last'.results[i]]_vars

\* the same channel was added twice; its first send failed, the second was
\* made all the same
C15_Witness ==
    /\ last.op = "notify"
    /\ Len(channels) = 2
    /\ channels[1] = channels[2]
    /\ last.results = <<FALSE, TRUE>>
    /\ Len(EventsOf(out, "send")) = 2
    /\ EventsOf(out, "send")[1].ok = FALSE
    /\ EventsOf(out, "send")[2].ok = TRUE
    /\ EventsOf(out, "send")[2].channel = channels[2]

\* the event after position i is a log line naming the channel and the recipient
LoggedAfter(events, i) ==
    /\ i < Len(events)
    /\ events[i + 1].kind = "log"
    /\ Contains(events[i + 1].text, <<events[i].channel>>)
    /\ Contains(events[i + 1].text, events[i].recipient)

\* C16: in what a call emits, a send is followed by a log line naming its
\* channel and recipient if and only if it returned true, and each notify makes
\* one send per channel (no retry); whatever the sends return, createTicket
\* for a stored customer returns the ID of a stored ticket and
\* updateTicketStatus of a stored ticket returns true with the status stored.
C16_LogIffSendSucceeded ==
    /\ \A i \in 1..Len(out) :
         out[i].kind = "send" => (out[i].ok <=> LoggedAfter(out, i))
    /\ Len(EventsOf(out, "send")) = Len(EventsOf(out, "notify")) * Len(channels)
    /\ (last.op = "createTicket" /\ last.customerId \in DOMAIN customers) =>
         /\ last.ret # EmptyString
         /\ last.ret \in DOMAIN tickets
    /\ (last.op = "updateTicketStatus" /\ last.ticketId \in DOMAIN tickets) =>
         /\ last.ret = TRUE
         /\ tickets[last.ticketId].status = last.newStatus

\* updateTicketStatus returned true and stored the status although the sends
\* on both channels failed; no send was logged
C16_Witness ==
    /\ last.op = "updateTicketStatus"
    /\ last.ret = TRUE
    /\ last.old = "OPEN"
    /\ tickets[last.ticketId].status = "RESOLVED"
    /\ Len(EventsOf(out, "send")) = 2
    /\ \A i \in 1..Len(out) : out[i].kind = "send" => ~out[i].ok
    /\ Len(EventsOf(out, "log")) = 1

\* the labels the type of a customer is shown under
TypeLabel(type) ==
    CASE type = "REGULAR" -> <<"Regular">>
      [] type = "PREMIUM" -> <<"Premium">>
      [] type = "VIP" -> <<"VIP">>

\* C17: a registerCustomer call emits exactly one log line, and the line
\* contains the ID the call returned, the name argument as passed (without the
\* type prefix) and the label of the type.
C17_RegisterLogsIdNameType ==
    last.op = "registerCustomer" =>
        LET lines == EventsOf(out, "log")
        IN  /\ Len(lines) = 1
            /\ Contains(lines[1].text, last.ret)
            /\ Contains(lines[1].text, last.name)
            /\ Contains(lines[1].text, TypeLabel(last.type))

\* C18: no call on the services removes or changes a stored customer, so
\* getCustomer(id) keeps returning the record stored when registerCustomer
\* returned id, with the same id, name, email, phone and type; no stored ticket
\* is removed: the sets of stored customer IDs and ticket IDs only grow.
C18_CustomersNeverChange ==
    [][/\ \A id \in DOMAIN customers :
            id \in DOMAIN customers' /\ customers'[id] = customers[id]
       /\ \A id \in DOMAIN tickets : id \in DOMAIN tickets'
       /\ (last'.op = "getCustomer" /\ last'.customerId \in DOMAIN customers) =>
            /\ last'.ret = customers[last'.customerId]
            /\ last'.ret.id = last'.customerId
       /\ last'.op = "registerCustomer" =>
            /\ last'.ret \notin DOMAIN customers
            /\ last'.ret \in DOMAIN customers']_vars

\* Alice was registered first; after a second registration, a ticket and a
\* status update, getCustomer(CUST-1001) returned her record as registered
C18_Witness ==
    /\ last.op = "getCustomer"
    /\ last.customerId = <<"CUST-", "1", "0", "0", "1">>
    /\ last.ret = [id |-> <<"CUST-", "1", "0", "0", "1">>, name |-> <<"Alice">>,
                   email |-> <<"a@x.com">>, phone |-> <<"555-0001">>, type |-> "REGULAR"]
    /\ Len(custReturned[1]) = 2
    /\ \E id \in DOMAIN tickets : tickets[id].status = "CLOSED"

\* C19: registerCustomer changes neither the ticket counter nor the ticket
\* repository; createTicket and updateTicketStatus change neither the customer
\* counter nor the customer repository; the first successful createTicket of a
\* service returns TKT-1001 however many customers were registered before it.
C19_CountersAreIndependent ==
    [][/\ last'.op = "registerCustomer" =>
            /\ ticketCounter' = ticketCounter
            /\ tickets' = tickets
       /\ last'.op \in {"createTicket", "updateTicketStatus"} =>
            /\ customerCounter' = customerCounter
            /\ customers' = customers
       /\ (last'.op = "createTicket" /\ last'.ret # EmptyString
           /\ tktReturned[last'.svc] = <<>>) =>
            last'.ret = <<"TKT-", "1", "0", "0", "1">>]_vars

\* the first ticket was created after two customers had been registered and
\* got the ID TKT-1001
C19_Witness ==
    /\ last.op = "createTicket"
    /\ last.ret = <<"TKT-", "1", "0", "0", "1">>
    /\ customerCounter[1] = 1002
    /\ ticketCounter[1] = 1001
    /\ Len(custReturned[1]) = 2
    /\ Len(tktReturned[1]) = 1

\* the IDs of a sequence of records, in order
IdsOf(records) == [i \in 1..Len(records) |-> records[i].id]

\* findAll returned each stored ID once, in ascending order of the ID strings
AscendingEachOnce(ret, map) ==
    /\ Len(ret) = Cardinality(DOMAIN map)
    /\ {ret[i].id : i \in 1..Len(ret)} = DOMAIN map
    /\ \A i \in 1..Len(ret) : ret[i] = map[ret[i].id]
    /\ \A i, j \in 1..Len(ret) : i < j => StringLess(ret[i].id, ret[j].id)

\* C20 as claimed: findAll returns the stored records in ascending order of
\* their ID strings, each stored ID once, and for IDs generated by one service
\* this is the order in which they were created.
C20_FindAllInCreationOrder ==
    last.op = "findAll" =>
        /\ AscendingEachOnce(last.ret, RepoOf(last.repo))
        /\ IdsOf(last.ret) = IdsOf([i \in 1..Len(SavesTo(last.repo)) |->
                                     SavesTo(last.repo)[i].record])

\* C20 amended: findAll returns the stored records in ascending order of their
\* ID strings, each stored ID once; two IDs generated by one service whose
\* numerals have the same number of digits appear in the order of creation.
C20_FindAllAscendingById ==
    last.op = "findAll" =>
        LET saves == SavesTo(last.repo)
            ids == IdsOf(last.ret)
        IN  /\ AscendingEachOnce(last.ret, RepoOf(last.repo))
            /\ \A i, j \in 1..Len(saves) :
                 (i < j /\ Len(saves[i].record.id) = Len(saves[j].record.id)) =>
                    \E a, b \in 1..Len(ids) :
                        /\ a < b
                        /\ ids[a] = saves[i].record.id
                        /\ ids[b] = saves[j].record.id

\* customers were stored under CUST-1001, CUST-9999 and CUST-10000 in this
\* order; findAll returned CUST-10000 first, then the other two as created
C20_Witness ==
    /\ last.op = "findAll"
    /\ last.repo = "customer"
    /\ IdsOf(last.ret) = << <<"CUST-", "1", "0", "0", "0", "0">>,
                            <<"CUST-", "1", "0", "0", "1">>,
                            <<"CUST-", "9", "9", "9", "9">> >>


\* the numbers each front end offers at its prompts
OffersStatus(n) == IF impl = "flat" THEN n \in 1..4 ELSE n \in 0..3

OffersType(n) == IF impl = "flat" THEN n \in 1..3 ELSE n \in 0..2

OffersCategory(n) == IF impl = "flat" THEN n \in 1..5 ELSE n \in 0..4

OffersPriority(n) == IF impl = "flat" THEN n \in 1..4 ELSE n \in 0..3

\* C21: in the status update prompt a selector that denotes none of the four
\* statuses aborts: updateTicketStatus is not called, no stored ticket changes
\* and nothing is sent; so through the console menu every stored ticket's
\* status is always one of OPEN, IN_PROGRESS, RESOLVED, CLOSED.
C21_InvalidStatusSelectorAborts ==
    [][/\ (Prompted("updateTicketStatus") /\ ~OffersStatus(last.statusChoice))
            => /\ last'.op # "updateTicketStatus"
               /\ tickets' = tickets
               /\ NoSend(out')
       /\ \A id \in DOMAIN tickets' : tickets'[id].status \in TicketStatus]_vars

\* C22: in the registration and creation prompts a selector outside the
\* offered range becomes the default before the service is called (REGULAR,
\* GENERAL, MEDIUM), so the service is only called with enumerators and every
\* stored type, priority and category is an enumerator.
C22_OutOfRangeSelectorsBecomeDefaults ==
    [][/\ Prompted("registerCustomer")
            => /\ last'.op = "registerCustomer"
               /\ last'.type \in CustomerType
               /\ ~OffersType(last.typeChoice) => last'.type = "REGULAR"
       /\ Prompted("createTicket")
            => /\ last'.op = "createTicket"
               /\ last'.priority \in Priority
               /\ last'.category \in TicketCategory
               /\ ~OffersCategory(last.categoryChoice) => last'.category = "GENERAL"
               /\ ~OffersPriority(last.priorityChoice) => last'.priority = "MEDIUM"
       /\ \A id \in DOMAIN customers' : customers'[id].type \in CustomerType
       /\ \A id \in DOMAIN tickets' :
            /\ tickets'[id].priority \in Priority
            /\ tickets'[id].category \in TicketCategory]_vars

\* the flat front end alone
SpecCLIFlat == InitFlat /\ [][NextCLI]_vars


\* a call of the flat services with arguments of SpecLifecycle
FlatStep ==
    \/ \E r \in Registrations : RegisterCustomer(1, r[1], r[2], r[3], r[4])
    \/ \E id \in GeneratedCustomerIds(MaxCustomers), d \in Descriptions,
          now \in Times, res \in SendResults(channels) :
         CreateTicket(1, id, d, "LOW", "GENERAL", now, res)
    \/ \E id \in TicketIdInputs(FewTickets), st \in {"IN_PROGRESS", "CLOSED"},
          res \in SendResults(channels) :
         UpdateTicketStatus(1, id, st, res)
    \/ \E id \in GeneratedCustomerIds(MaxCustomers) : GetCustomer(1, id)

\* C23: the flat and the layered implementation behave identically: whatever
\* call the running implementation makes, from the same repositories the flat
\* services would return the same value, leave the same repository contents
\* and issue the same notifications and audit log lines.
C23_LayeredBehavesAsFlat == [][FlatStep]_vars


\* every notify call and every channel send of events comes after position i
BroadcastAfter(events, i) ==
    \A j \in 1..Len(events) : events[j].kind \in {"notify", "send"} => j > i

\* C24: the effects of a successful call come in a fixed order.  createTicket:
\* the ticket is saved, then the creation line is logged, then the
\* notification is broadcast.  updateTicketStatus: the new status is saved,
\* then the notification is broadcast if the customer resolves, then the
\* status line is logged.  Every send comes after the save, and what was saved
\* is what the repository holds.
C24_SaveThenLogOrNotify ==
    /\ (last.op = "createTicket" /\ last.ret # EmptyString)
         => /\ Len(out) >= 3
            /\ out[1].kind = "save"
            /\ out[1].record = tickets[last.ret]
            /\ out[2].kind = "log"
            /\ Contains(out[2].text, last.ret)
            /\ out[3].kind = "notify"
            /\ BroadcastAfter(out, 2)
            /\ Len(EventsOf(out, "save")) = 1
    /\ (last.op = "updateTicketStatus" /\ last.ret)
         => /\ Len(out) >= 2
            /\ out[1].kind = "save"
            /\ out[1].record = tickets[last.ticketId]
            /\ out[1].record.status = last.newStatus
            /\ BroadcastAfter(out, 1)
            /\ Len(EventsOf(out, "save")) = 1
            /\ out[Len(out)].kind = "log"
            /\ Contains(out[Len(out)].text, last.ticketId)
            /\ IF tickets[last.ticketId].customerId \in DOMAIN customers
               THEN out[2].kind = "notify"
               ELSE Len(out) = 2

\* a status update whose three sends follow the save and precede the log line
C24_Witness ==
    /\ last.op = "updateTicketStatus"
    /\ last.ret
    /\ out[1].kind = "save"
    /\ out[2].kind = "notify"
    /\ Len(EventsOf(out, "send")) = 3
    /\ out[Len(out)].kind = "log"


\* C25: through registerCustomer, createTicket and updateTicketStatus on
\* services that share the customer repository, the customerId of every stored
\* ticket is the ID of a stored customer; so a successful updateTicketStatus
\* always finds the customer and sends a notification.
C25_TicketsReferToStoredCustomers ==
    /\ \A id \in DOMAIN tickets : tickets[id].customerId \in DOMAIN customers
    /\ (last.op = "updateTicketStatus" /\ last.ret)
         => /\ Len(EventsOf(out, "notify")) = 1
            /\ EventsOf(out, "notify")[1].recipient
                 = customers[tickets[last.ticketId].customerId].email
            /\ Len(EventsOf(out, "send")) = Len(channels)

\* the second ticket service updates a ticket and the customer is notified
C25_Witness ==
    /\ last.op = "updateTicketStatus"
    /\ last.ret
    /\ last.svc = 2
    /\ Cardinality(DOMAIN customerCounter) = 2
    /\ Len(EventsOf(out, "send")) = 3


\* C26: a successful updateTicketStatus(ticketId, n) changes only the status
\* of the ticket stored under ticketId: its id, customerId, description,
\* priority, category, createdAt, assignedTo and tags are as before, every
\* ticket under another ID is unchanged, and so are the ticket counter and
\* the number of stored tickets.
C26_UpdateChangesOnlyTheStatus ==
    [][(last'.op = "updateTicketStatus" /\ last'.ret)
         => LET id == last'.ticketId
            IN  /\ id \in DOMAIN tickets
                /\ DOMAIN tickets' = DOMAIN tickets
                /\ Cardinality(DOMAIN tickets') = Cardinality(DOMAIN tickets)
                /\ \A k \in DOMAIN tickets \ {id} : tickets'[k] = tickets[k]
                /\ tickets'[id].status = last'.newStatus
                /\ tickets'[id].id = tickets[id].id
                /\ tickets'[id].customerId = tickets[id].customerId
                /\ tickets'[id].description = tickets[id].description
                /\ tickets'[id].priority = tickets[id].priority
                /\ tickets'[id].category = tickets[id].category
                /\ tickets'[id].createdAt = tickets[id].createdAt
                /\ tickets'[id].assignedTo = tickets[id].assignedTo
                /\ tickets'[id].tags = tickets[id].tags
                /\ ticketCounter' = ticketCounter]_vars

\* one of two stored tickets, with a tag, has been given another status
C26_Witness ==
    /\ last.op = "updateTicketStatus"
    /\ last.ret
    /\ last.old # last.newStatus
    /\ Cardinality(DOMAIN tickets) = 2
    /\ tickets[last.ticketId].status = last.newStatus
    /\ tickets[last.ticketId].tags # <<>>


\* C27 as stated: a ticket object handed out by getAllTickets or findById is
\* a snapshot: whatever updateTicketStatus calls follow, the ticket read
\* through it is the ticket as it was when it was handed out.
C27_HandleIsSnapshot ==
    \A i \in 1..Len(held) : held[i].seen = held[i].obtained

\* C27, amended: the object handed out is the stored object itself.  The next
\* successful updateTicketStatus on its ID sets the status read through it to
\* the new status and leaves it detached from the repository; once detached it
\* never changes again.  While it is not detached it shows the repository's
\* record, and all it ever shows differs from the ticket as handed out in the
\* status only.
C27_HandleSeesOnlyTheNextUpdate ==
    [][\A i \in 1..Len(held) :
          /\ held[i].stored => held[i].seen = tickets[held[i].id]
          /\ held[i].seen = [held[i].obtained EXCEPT !.status = held[i].seen.status]
          /\ ~held[i].stored => held'[i] = held[i]
          /\ (/\ held[i].stored
              /\ last'.op = "updateTicketStatus"
              /\ last'.ret
              /\ last'.ticketId = held[i].id)
               => /\ held'[i].seen = [held[i].seen EXCEPT !.status = last'.newStatus]
                  /\ ~held'[i].stored
          /\ (held[i].stored /\ held'[i].stored) => held'[i] = held[i]]_vars

\* a ticket handed out as OPEN, then set to IN_PROGRESS and then to CLOSED:
\* the object shows IN_PROGRESS, the repository CLOSED
C27_Witness ==
    \E i \in 1..Len(held) :
       /\ held[i].obtained.status = "OPEN"
       /\ held[i].seen.status = "IN_PROGRESS"
       /\ tickets[held[i].id].status = "CLOSED"
       /\ ~held[i].stored

====
